---- MODULE Spec2Model ----
(***************************************************************************)
(* QuickChat: the streaming chat adapter OllamaClient.chat_stream          *)
(* (src/src/services/ollama_client.py).                                    *)
(*                                                                         *)
(* A Python str is modelled as a sequence of one-character strings, so     *)
(* that str.find, slicing and str.strip are computed as the code computes  *)
(* them.  One run of the model is one call of chat_stream: the backend     *)
(* delivers the chunks of `parts` one by one, the generator turns each     *)
(* into zero or more yielded dicts, and the caller receives them in        *)
(* `yielded`.                                                              *)
(***************************************************************************)
EXTENDS Integers, Sequences, FiniteSets, TLC

VARIABLES
    thinking_method,      \* capabilities.get('thinking_method'): "None", "parameter", "directive"
    parts,                \* the chunks the backend stream will deliver, in order
    received,             \* how many chunks the async for loop has taken
    buffered_content,     \* chat_stream local
    in_thinking_section,  \* chat_stream local
    think_buffer,         \* chat_stream local (written, never read by the code)
    pending,              \* dicts of the current loop iteration not yet yielded
    yielded,              \* dicts the caller has received, oldest first
    failed,               \* the except clause of chat_stream has run
    propagated,           \* an exception left chat_stream
    pc,                   \* "call", "caps", "start", "streaming", "ending", "done"
    \* the arguments of chat_stream and the request it builds
    messages,             \* the caller's list of message dicts, changed in place
    call_messages,        \* the list as it was when chat_stream was called
    enable_thinking,      \* argument of chat_stream
    images,               \* argument of chat_stream: None, a path, or a list of paths
    chat_kwargs,          \* <<>> until built, then <<the keyword arguments of client.chat>>
    \* MainWindow.handle_send_message, from the streaming loop to the saved reply
    ui_pc,                \* "none" (no window drives the stream), "loop", "saved"
    stop_requested,       \* MainWindow.stop_requested
    full_response,        \* handle_send_message local
    full_thinking,        \* handle_send_message local
    shown,                \* what the assistant widget displays: thinking and response
    consumed,             \* how many yielded dicts the loop has been handed
    handled,              \* how many of them got past the stop check
    saved,                \* the assistant message given to chat_manager.add_message
    \* OllamaClient.get_model_capabilities and its callers
    model_name,           \* the model the calls ask about
    details,              \* what client.show(model_name) answers when it answers
    capabilities_cache,   \* OllamaClient._capabilities_cache: <<>> or <<result>> per name
    cpc,                  \* per caller: "idle", "awaiting" (in client.show), "returned", "raised"
    result,               \* per caller: what its latest call returned
    requests,             \* per caller: client.show requests issued
    last,                 \* per caller: how its latest call resolved
    undisturbed,          \* per caller: no other call has written the cache since it returned
    \* OllamaClient.generate_chat_title and the code of the window around it
    title_pc,             \* "idle", "call", "streaming", "returned", "saved"
    user_message,         \* argument of generate_chat_title: the user's first message
    assistant_message,    \* argument of generate_chat_title: the first reply
    title_caps,           \* what get_model_capabilities(model) returns to generate_chat_title
    title_parts,          \* the content of the chunks the backend will stream
    title_request,        \* <<>> until built, then <<the keyword arguments of client.chat>>
    title_yield,          \* what the generator has yielded
    title_failed,         \* the except clause of generate_chat_title has run
    chat_title,           \* <<>> until the window saves a title, then <<the title>>
    \* two chat_stream calls running at the same time
    twin,                 \* per call: thinking method, chunks, chunks taken, dicts yielded, position
    twin_locals,          \* per frame: buffered_content, in_thinking_section, think_buffer
    \* test_directives_actual.py
    test_messages,        \* <<>> until the test has processed its copy, then <<the copy>>
    \* MainWindow and InputArea around handle_send_message
    generating_response,  \* MainWindow.generating_response
    generating_title,     \* MainWindow.generating_title
    is_generating,        \* InputArea.is_generating
    is_generating_title,  \* InputArea.is_generating_title
    task,                 \* per handle_send_message task: how far it has run
    taken,                \* per task: the dicts its streaming loop has taken
    click,                \* what the last click or call of a slot did, if not its work
    current_chat_id,      \* MainWindow.current_chat_id, NoChatId for None
    store,                \* chat_manager: per chat id its row, message count and title state
    displayed,            \* ChatArea: per message widget the chat it was added for
    saved_to,             \* per task: the chat ids its two add_message calls were given
    \* the turns of one chat
    history,              \* chat_manager.get_messages: the stored messages of the chat
    turns                 \* number of messages the user has sent in the chat

streamVars == <<thinking_method, parts, received, buffered_content, in_thinking_section,
                think_buffer, pending, yielded, failed, propagated, pc>>

requestVars == <<messages, call_messages, enable_thinking, images, chat_kwargs>>

uiVars == <<ui_pc, stop_requested, full_response, full_thinking, shown, consumed,
            handled, saved>>

capVars == <<model_name, details, capabilities_cache, cpc, result, requests, last,
             undisturbed>>

titleVars == <<title_pc, user_message, assistant_message, title_caps, title_parts,
               title_request, title_yield, title_failed, chat_title>>

twinVars == <<twin, twin_locals>>

testVars == <<test_messages>>

sendVars == <<generating_response, generating_title, is_generating,
              is_generating_title, task, taken, click, current_chat_id, store,
              displayed, saved_to>>

turnVars == <<history, turns>>

vars == <<streamVars, requestVars, uiVars, capVars, titleVars, twinVars, testVars, sendVars, turnVars>>

---------------------------------------------------------------------------
(* Bounds of the model *)

\* longest backend stream drawn from Chunks (the named example streams are extra)
MaxParts == 2

\* the number of messages the user sends
MaxSends == 2

\* the number of turns of a chat
MaxTurns == 2

---------------------------------------------------------------------------
(* Python str operations *)

Whitespace == {" ", "\n"}

SetMin(S) == CHOOSE x \in S : \A y \in S : x <= y

SetMax(S) == CHOOSE x \in S : \A y \in S : x >= y

\* s.find(pat): the lowest 0-based index where pat occurs in s, -1 if none
Find(s, pat) ==
    LET hits == {i \in 0..(Len(s) - Len(pat)) : SubSeq(s, i + 1, i + Len(pat)) = pat}
    IN  IF hits = {} THEN -1 ELSE SetMin(hits)

\* pat in s
Contains(s, pat) == Find(s, pat) >= 0

\* s[:k]
Prefix(s, k) == SubSeq(s, 1, k)

\* s[k:]
Suffix(s, k) == SubSeq(s, k + 1, Len(s))

\* s.strip(): leading and trailing whitespace removed
Strip(s) ==
    LET keep == {i \in 1..Len(s) : s[i] \notin Whitespace}
    IN  IF keep = {} THEN <<>> ELSE SubSeq(s, SetMin(keep), SetMax(keep))

---------------------------------------------------------------------------
(* Literals of chat_stream *)

OpenTag == <<"<", "t", "h", "i", "n", "k", ">">>

CloseTag == <<"<", "/", "t", "h", "i", "n", "k", ">">>

\* buffered_content[think_start + 7:]
OpenSkip == 7

\* buffered_content[closing_pos + 8:]
CloseSkip == 8

\* f"\n[Error: {str(e)}]" with the exception text "e"
ErrorMarker == <<"\n", "[", "E", "r", "r", "o", "r", ":", " ", "e", "]">>

\* the dict a yield statement hands to the caller
Chunk(t, c) == [thinking |-> t, content |-> c]

---------------------------------------------------------------------------
(* The loop body of chat_stream.  Each step returns the dicts it yields     *)
(* (out) and the values of the locals after it.                            *)

\* `if '<think>' in buffered_content and not in_thinking_section:`
OpenTagStep(buf, inside) ==
    LET think_start == Find(buf, OpenTag)
    IN  IF Contains(buf, OpenTag) /\ ~inside
        THEN [out    |-> IF think_start > 0
                         THEN <<Chunk(<<>>, Prefix(buf, think_start))>>
                         ELSE <<>>,
              buf    |-> Suffix(buf, think_start + OpenSkip),
              inside |-> TRUE]
        ELSE [out |-> <<>>, buf |-> buf, inside |-> inside]

\* ThinkingStep with unterminated thinking held back in the buffer instead of
\* streamed, so that the flush after the loop emits it as content
ThinkingStep_Hold(buf, tb) ==
    LET closing_pos == Find(buf, CloseTag)
    IN  IF closing_pos >= 0
        THEN LET remaining_thinking == Prefix(buf, closing_pos)
                 rest == Strip(Suffix(buf, closing_pos + CloseSkip))
             IN  [out    |-> (IF remaining_thinking # <<>>
                              THEN <<Chunk(remaining_thinking, <<>>)>>
                              ELSE <<>>)
                             \o (IF rest # <<>> THEN <<Chunk(<<>>, rest)>> ELSE <<>>),
                  buf    |-> IF rest # <<>> THEN <<>> ELSE rest,
                  inside |-> FALSE,
                  think  |-> <<>>]
        ELSE [out |-> <<>>, buf |-> buf, inside |-> TRUE, think |-> tb]

\* ThinkingStep keeping the text after </think> in the buffer for the next
\* chunk instead of yielding it at once
ThinkingStep_BufferRest(buf, tb) ==
    LET closing_pos == Find(buf, CloseTag)
    IN  IF closing_pos >= 0
        THEN LET remaining_thinking == Prefix(buf, closing_pos)
                 rest == Strip(Suffix(buf, closing_pos + CloseSkip))
             IN  [out    |-> IF remaining_thinking # <<>>
                             THEN <<Chunk(remaining_thinking, <<>>)>>
                             ELSE <<>>,
                  buf    |-> rest,
                  inside |-> FALSE,
                  think  |-> <<>>]
        ELSE [out    |-> IF buf # <<>> THEN <<Chunk(buf, <<>>)>> ELSE <<>>,
              buf    |-> <<>>,
              inside |-> TRUE,
              think  |-> tb \o buf]

\* `if in_thinking_section:` look for the closing tag
ThinkingStep(buf, tb) ==
    LET closing_pos == Find(buf, CloseTag)
    IN  IF closing_pos >= 0
        THEN LET remaining_thinking == Prefix(buf, closing_pos)
                 rest == Strip(Suffix(buf, closing_pos + CloseSkip))
             IN  [out    |-> (IF remaining_thinking # <<>>
                              THEN <<Chunk(remaining_thinking, <<>>)>>
                              ELSE <<>>)
                             \o (IF rest # <<>> THEN <<Chunk(<<>>, rest)>> ELSE <<>>),
                  buf    |-> IF rest # <<>> THEN <<>> ELSE rest,
                  inside |-> FALSE,
                  think  |-> <<>>]
        ELSE [out    |-> IF buf # <<>> THEN <<Chunk(buf, <<>>)>> ELSE <<>>,
              buf    |-> <<>>,
              inside |-> TRUE,
              think  |-> tb \o buf]

\* ContentStep without `buffered_content = ""` after the yield
ContentStep_NoClear(buf, tb) ==
    [out    |-> IF buf # <<>> THEN <<Chunk(<<>>, buf)>> ELSE <<>>,
     buf    |-> buf,
     inside |-> FALSE,
     think  |-> tb]

\* `else:` not in a thinking section, stream content as it comes
ContentStep(buf, tb) ==
    [out    |-> IF buf # <<>> THEN <<Chunk(<<>>, buf)>> ELSE <<>>,
     buf    |-> IF buf # <<>> THEN <<>> ELSE buf,
     inside |-> FALSE,
     think  |-> tb]

\* DirectiveBranch yielding the thinking accumulated so far (think_buffer)
\* again with each new piece of thinking
DirectiveBranch_Reemit(buf, inside, tb, content_chunk) ==
    LET o == OpenTagStep(buf \o content_chunk, inside)
        r == IF o.inside THEN ThinkingStep(tb \o o.buf, tb) ELSE ContentStep(o.buf, tb)
    IN  [out |-> o.out \o r.out, buf |-> r.buf, inside |-> r.inside, think |-> r.think]

\* the directive branch: buffer the chunk, then the three steps above
DirectiveBranch(buf, inside, tb, content_chunk) ==
    LET o == OpenTagStep(buf \o content_chunk, inside)
        r == IF o.inside THEN ThinkingStep(o.buf, tb) ELSE ContentStep(o.buf, tb)
    IN  [out |-> o.out \o r.out, buf |-> r.buf, inside |-> r.inside, think |-> r.think]

\* `elif thinking_chunk or content_chunk:` stream normally
ForwardBranch(buf, inside, tb, part) ==
    [out    |-> IF part.thinking # <<>> \/ part.content # <<>>
                THEN <<Chunk(part.thinking, part.content)>>
                ELSE <<>>,
     buf    |-> buf,
     inside |-> inside,
     think  |-> tb]

\* LoopBody scanning for tags whatever the thinking mechanism
LoopBody_AlwaysParse(method, buf, inside, tb, part) ==
    IF part.content # <<>>
    THEN DirectiveBranch(buf, inside, tb, part.content)
    ELSE ForwardBranch(buf, inside, tb, part)

\* one iteration of `async for part in await self.client.chat(**chat_kwargs)`
LoopBody(method, buf, inside, tb, part) ==
    IF method = "directive" /\ part.content # <<>>
    THEN DirectiveBranch(buf, inside, tb, part.content)
    ELSE ForwardBranch(buf, inside, tb, part)

\* `if buffered_content:` after the loop
EndOfStreamFlush(buf) ==
    IF buf # <<>> THEN <<Chunk(<<>>, buf)>> ELSE <<>>

\* chat_stream without its try/except: the exception reaches the caller
ExceptClause_Reraise ==
    [out |-> <<>>, propagated |-> TRUE]

\* `except Exception as e:` yields the error marker; nothing is re-raised
ExceptClause ==
    [out |-> <<Chunk(<<>>, ErrorMarker)>>, propagated |-> FALSE]

---------------------------------------------------------------------------
(* Backend streams *)

ThinkingMethods == {"None", "parameter", "directive"}

\* message.get('thinking', ''): absent or a piece of reasoning
ThinkingFields == {<<>>, <<"r">>}

TwoPairs ==
    OpenTag \o <<"a">> \o CloseTag \o <<"b">> \o OpenTag \o <<"c">> \o CloseTag \o <<"d">>

\* message.get('content', ''): plain text, whitespace, whole tags, tags cut in two
Fragments ==
    { <<>>,
      <<"a">>,
      <<" ", "b", " ">>,
      OpenTag,
      CloseTag,
      <<"a">> \o OpenTag \o <<"b">>,
      <<"c">> \o CloseTag \o <<" ", "d">>,
      <<"<", "t", "h", "i">>,
      <<"n", "k", ">", "x">>,
      TwoPairs }

Chunks == [thinking : ThinkingFields, content : Fragments]

Text(c) == [thinking |-> <<>>, content |-> c]

\* ["Hello ", "<think>reasoning ", "more</think> world"]
BasicSplit ==
    << Text(<<"H", "e", "l", "l", "o", " ">>),
       Text(OpenTag \o <<"r", "e", "a", "s", "o", "n", "i", "n", "g", " ">>),
       Text(<<"m", "o", "r", "e">> \o CloseTag \o <<" ", "w", "o", "r", "l", "d">>) >>

\* ["abc", "def"]
NoTags == << Text(<<"a", "b", "c">>), Text(<<"d", "e", "f">>) >>

\* ["<think>partial"]
Unterminated == << Text(OpenTag \o <<"p", "a", "r", "t", "i", "a", "l">>) >>

ExampleStreams == {BasicSplit, NoTags, Unterminated}

Streams ==
    UNION {[1..n -> Chunks] : n \in 0..MaxParts} \cup ExampleStreams

---------------------------------------------------------------------------
(* OllamaClient.get_model_capabilities *)

UpperCase == <<"A", "B", "C", "D", "E", "F", "G", "H", "I", "J", "K", "L", "M", "N", "O", "P", "Q", "R", "S", "T", "U", "V", "W", "X", "Y", "Z">>

LowerCase == <<"a", "b", "c", "d", "e", "f", "g", "h", "i", "j", "k", "l", "m", "n", "o", "p", "q", "r", "s", "t", "u", "v", "w", "x", "y", "z">>

\* str.lower(), character by character
LowerChar(c) ==
    IF \E i \in 1..Len(UpperCase) : UpperCase[i] = c
    THEN LowerCase[CHOOSE i \in 1..Len(UpperCase) : UpperCase[i] = c]
    ELSE c

Lower(s) == [i \in 1..Len(s) |-> LowerChar(s[i])]

THINKING_MODEL_KEYWORDS ==
    { <<"q", "w", "e", "n", "3">>,
      <<"q", "w", "e", "n", "2", ".", "5">>,
      <<"d", "e", "e", "p", "s", "e", "e", "k", "-", "r", "1">>,
      <<"d", "e", "e", "p", "s", "e", "e", "k", "-", "v", "3">>,
      <<"q", "w", "q">> }

VISION_MODEL_KEYWORDS ==
    { <<"l", "l", "a", "v", "a">>,
      <<"b", "a", "k", "l", "l", "a", "v", "a">>,
      <<"l", "l", "a", "v", "a", "-", "p", "h", "i">>,
      <<"m", "o", "o", "n", "d", "r", "e", "a", "m">>,
      <<"c", "o", "g", "v", "l", "m">>,
      <<"l", "l", "a", "m", "a", "3", ".", "2", "-", "v", "i", "s", "i", "o", "n">>,
      <<"g", "e", "m", "m", "a", "3">> }

Reasoning == <<"r", "e", "a", "s", "o", "n", "i", "n", "g">>

Think == <<"t", "h", "i", "n", "k">>

Vision == <<"v", "i", "s", "i", "o", "n">>

\* any(word in str(item).lower() for item in items), for one of the words
AnyItemHas(items, words) ==
    \E i \in 1..Len(items) : \E w \in words : Contains(Lower(items[i]), w)

\* the keywords are compared with the name as typed
KeywordMatch_CaseSensitive(name, keywords) ==
    \E keyword \in keywords : Contains(name, keyword)

\* any(keyword in model_name.lower() for keyword in keywords)
KeywordMatch(name, keywords) ==
    \E keyword \in keywords : Contains(Lower(name), keyword)

\* the dict the function returns and caches; None is written "None"
Capabilities(thinking_capable, vision_capable, method) ==
    [thinking |-> thinking_capable, vision |-> vision_capable, thinking_method |-> method]

\* the keywords of the name are looked at before the capabilities field
FromDetails_KeywordFirst(name, d) ==
    LET by_name == KeywordMatch(name, THINKING_MODEL_KEYWORDS)
        caps == IF d.has_capabilities /\ d.capabilities_is_list THEN d.capabilities ELSE <<>>
        by_tag == AnyItemHas(caps, {Reasoning, Think})
    IN  Capabilities(by_name \/ by_tag,
                     AnyItemHas(caps, {Vision}) \/ AnyItemHas(d.modelinfo, {Vision}),
                     IF by_name THEN "directive" ELSE IF by_tag THEN "parameter" ELSE "None")

\* the mechanism is left unset when a capability tag reports thinking
FromDetails_MethodUnset(name, d) ==
    LET caps == IF d.capabilities_is_list THEN d.capabilities ELSE <<>>
        by_tag == d.has_capabilities /\ AnyItemHas(caps, {Reasoning, Think})
        vision_tag == d.has_capabilities /\ AnyItemHas(caps, {Vision})
        has_vision_params == AnyItemHas(d.modelinfo, {Vision})
        by_name == ~by_tag /\ KeywordMatch(name, THINKING_MODEL_KEYWORDS)
    IN  Capabilities(by_tag \/ by_name,
                     vision_tag \/ has_vision_params,
                     IF by_name THEN "directive" ELSE "None")

\* the try block after client.show has answered
FromDetails(name, d) ==
    LET caps == IF d.capabilities_is_list THEN d.capabilities ELSE <<>>
        by_tag == d.has_capabilities /\ AnyItemHas(caps, {Reasoning, Think})
        vision_tag == d.has_capabilities /\ AnyItemHas(caps, {Vision})
        has_vision_params == AnyItemHas(d.modelinfo, {Vision})
        by_name == ~by_tag /\ KeywordMatch(name, THINKING_MODEL_KEYWORDS)
    IN  Capabilities(by_tag \/ by_name,
                     vision_tag \/ has_vision_params,
                     IF by_tag THEN "parameter" ELSE IF by_name THEN "directive" ELSE "None")

\* one keyword set decides both flags
FallbackResult_AnyKeyword(name) ==
    LET hit == KeywordMatch(name, THINKING_MODEL_KEYWORDS \cup VISION_MODEL_KEYWORDS)
    IN  Capabilities(hit, hit, IF hit THEN "directive" ELSE "None")

\* the result built in the except clause
FallbackResult(name) ==
    LET thinking_capable == KeywordMatch(name, THINKING_MODEL_KEYWORDS)
        vision_capable == KeywordMatch(name, VISION_MODEL_KEYWORDS)
    IN  Capabilities(thinking_capable, vision_capable,
                     IF thinking_capable THEN "directive" ELSE "None")

\* the failure of client.show is passed on to the caller
ExceptShow_Reraise(name) == [raised |-> TRUE, result |-> FallbackResult(name)]

\* `except Exception` around client.show and the code after it
ExceptShow(name) == [raised |-> FALSE, result |-> FallbackResult(name)]

\* the cache is never consulted
CacheHit_Never(cache, name) == FALSE

\* `model_name in OllamaClient._capabilities_cache`
CacheHit(cache, name) == cache[name] # <<>>

\* `OllamaClient._capabilities_cache[model_name] = result`
CacheWrite(cache, name, r) == [cache EXCEPT ![name] = <<r>>]

\* model names as the model selector offers them
ModelNames ==
    { <<"q", "w", "e", "n", "3", ":", "8", "b">>,
      <<"Q", "w", "Q">>,
      <<"l", "l", "a", "v", "a">>,
      <<"p", "h", "i", "3">>,
      <<"g", "e", "m", "m", "a", "3", "-", "q", "w", "q">> }

\* entries of the capabilities list of a show response
Tag_completion == <<"c", "o", "m", "p", "l", "e", "t", "i", "o", "n">>

Tag_thinking == <<"t", "h", "i", "n", "k", "i", "n", "g">>

Tag_Reasoning == <<"R", "e", "a", "s", "o", "n", "i", "n", "g">>

Tag_vision == <<"v", "i", "s", "i", "o", "n">>

CapabilityLists ==
    { <<>>,
      <<Tag_completion>>,
      <<Tag_completion, Tag_thinking>>,
      <<Tag_completion, Tag_Reasoning>>,
      <<Tag_completion, Tag_vision>>,
      <<Tag_completion, Tag_vision, Tag_thinking>> }

\* keys of the modelinfo mapping; <<>> stands for an absent or empty modelinfo
ModelInfoKeys ==
    { <<>>,
      << <<"g", "e", "n", "e", "r", "a", "l", ".", "a", "r", "c", "h", "i", "t", "e", "c", "t", "u", "r", "e">> >>,
      << <<"g", "e", "n", "e", "r", "a", "l", ".", "a", "r", "c", "h", "i", "t", "e", "c", "t", "u", "r", "e">>,
         <<"c", "l", "i", "p", ".", "v", "i", "s", "i", "o", "n", ".", "b", "l", "o", "c", "k", "_", "c", "o", "u", "n", "t">> >> }

\* show responses: with a capabilities list, with a capabilities field that
\* is not a list, and without the field
ShowResponses ==
    [has_capabilities : {TRUE}, capabilities_is_list : {TRUE},
     capabilities : CapabilityLists, modelinfo : ModelInfoKeys]
    \cup [has_capabilities : BOOLEAN, capabilities_is_list : {FALSE},
          capabilities : {<<>>}, modelinfo : ModelInfoKeys]

\* the tasks that call get_model_capabilities: Header.on_model_changed and chat_stream
Callers == {"on_model_changed", "chat_stream"}

NoResult == Capabilities(FALSE, FALSE, "None")

\* no call has been made: the cache is empty
CapsStart ==
    /\ capabilities_cache = [n \in ModelNames |-> <<>>]
    /\ cpc = [c \in Callers |-> "idle"]
    /\ result = [c \in Callers |-> NoResult]
    /\ requests = [c \in Callers |-> 0]
    /\ last = [c \in Callers |-> "none"]
    /\ undisturbed = [c \in Callers |-> FALSE]

\* the part of the state the stream and the window do not look at
NoCalls ==
    /\ model_name = <<>>
    /\ details = [has_capabilities |-> FALSE, capabilities_is_list |-> FALSE,
                  capabilities |-> <<>>, modelinfo |-> <<>>]
    /\ CapsStart

---------------------------------------------------------------------------
(* chat_stream before its loop: images, directive, keyword arguments *)

\* '/think' if enable_thinking else '/no_think'
Directive(enable) ==
    IF enable THEN <<"/", "t", "h", "i", "n", "k">>
    ELSE <<"/", "n", "o", "_", "t", "h", "i", "n", "k">>

\* a message dict; images = <<>> stands for no 'images' key or an empty one
Message(role, content, imgs) == [role |-> role, content |-> content, images |-> imgs]

\* the index of the last user message, 0 for None
LastUser(msgs) ==
    IF \E i \in 1..Len(msgs) : msgs[i].role = "user"
    THEN SetMax({i \in 1..Len(msgs) : msgs[i].role = "user"})
    ELSE 0

\* the images argument as a list: [images] for a path, the list itself otherwise
AsList(imgs) == IF imgs.kind = "str" THEN <<imgs.path>> ELSE imgs.paths

\* `if images:` is false for None, for '' and for []
Truthy(imgs) ==
    \/ imgs.kind = "str" /\ imgs.path # ""
    \/ imgs.kind = "list" /\ imgs.paths # <<>>

\* every user message gets the images
AttachTo_AllUsers(msgs, imgs) ==
    IF Truthy(imgs)
    THEN [i \in 1..Len(msgs) |->
            IF msgs[i].role = "user" THEN [msgs[i] EXCEPT !.images = AsList(imgs)]
            ELSE msgs[i]]
    ELSE msgs

\* the images are attached to the last user message unless it has some
AttachTo(msgs, imgs) ==
    IF Truthy(imgs) /\ LastUser(msgs) # 0 /\ msgs[LastUser(msgs)].images = <<>>
    THEN [msgs EXCEPT ![LastUser(msgs)].images = AsList(imgs)]
    ELSE msgs

\* only the first user message gets the directive
InjectDirective_FirstOnly(method, msgs, enable) ==
    IF method = "directive" /\ msgs # <<>>
    THEN [i \in 1..Len(msgs) |->
            IF msgs[i].role = "user" /\ \A j \in 1..(i - 1) : msgs[j].role # "user"
            THEN [msgs[i] EXCEPT !.content = Directive(enable) \o <<"\n">> \o @]
            ELSE msgs[i]]
    ELSE msgs

\* msg['content'] = f"{directive}\n{msg['content']}" for every user message
InjectDirective(method, msgs, enable) ==
    IF method = "directive" /\ msgs # <<>>
    THEN [i \in 1..Len(msgs) |->
            IF msgs[i].role = "user"
            THEN [msgs[i] EXCEPT !.content = Directive(enable) \o <<"\n">> \o @]
            ELSE msgs[i]]
    ELSE msgs

\* the think parameter is sent to every model
ChatKwargs_AlwaysThink(model, method, msgs, enable) ==
    [model |-> model, messages |-> msgs, stream |-> TRUE, think |-> <<enable>>]

\* the keyword arguments of client.chat; think = <<>> stands for no 'think' key
ChatKwargs(model, method, msgs, enable) ==
    [model |-> model, messages |-> msgs, stream |-> TRUE,
     think |-> IF method = "parameter" THEN <<enable>> ELSE <<>>]

Hi == <<"h", "i">>

Ok == <<"o", "k">>

NoImages == [kind |-> "none", path |-> "", paths |-> <<>>]

\* images=None, a path, a list of paths, an empty list
ImageArgs ==
    { NoImages,
      [kind |-> "str", path |-> "a.png", paths |-> <<>>],
      [kind |-> "list", path |-> "", paths |-> <<"a.png", "b.png">>],
      [kind |-> "list", path |-> "", paths |-> <<>>] }

\* message dicts as handle_send_message builds them from the stored chat:
\* {'role': msg.role, 'content': msg.content}, never with an 'images' key
SomeMessages ==
    { Message("user", Hi, <<>>),
      Message("user", <<>>, <<>>),
      Message("assistant", Ok, <<>>),
      Message("system", Ok, <<>>) }

\* a conversation of several turns, and one whose first question already
\* starts with a directive
LongHistories ==
    { << Message("system", Ok, <<>>), Message("user", Hi, <<>>),
         Message("assistant", Ok, <<>>), Message("user", Ok, <<>>) >>,
      << Message("user", Directive(TRUE) \o <<"\n">> \o Hi, <<>>),
         Message("assistant", Ok, <<>>), Message("user", Hi, <<>>) >> }

Histories ==
    {<<>>} \cup [1..1 -> SomeMessages] \cup [1..2 -> SomeMessages] \cup LongHistories

\* chat_stream(model, [{'role': 'user', 'content': 'hi'}], enable_thinking=True)
OneQuestion ==
    /\ messages = << Message("user", Hi, <<>>) >>
    /\ call_messages = messages
    /\ enable_thinking = TRUE
    /\ images = NoImages
    /\ chat_kwargs = <<>>

---------------------------------------------------------------------------
(* OllamaClient.generate_chat_title and the title code of the window *)

TitleLimit == 50

TitleKeep == 47

FallbackLimit == 30

PromptCut == 200

Dots == <<".", ".", ".">>

Quotes == {"\"", "'"}

\* s[:k], for any k >= 0
Take(s, k) == SubSeq(s, 1, IF k < Len(s) THEN k ELSE Len(s))

\* re.sub(r'<think>.*?</think>', '', s, flags=re.DOTALL): every stretch from
\* a <think> to the nearest </think> after it is taken out, from the left
RECURSIVE SubThink(_)
SubThink(s) ==
    LET open == Find(s, OpenTag)
        rest == Suffix(s, open + Len(OpenTag))
        close == Find(rest, CloseTag)
    IN  IF open < 0 \/ close < 0 THEN s
        ELSE Prefix(s, open) \o SubThink(Suffix(rest, close + Len(CloseTag)))

\* s.strip('"\'')
StripQuotes(s) ==
    LET keep == {i \in 1..Len(s) : s[i] \notin Quotes}
    IN  IF keep = {} THEN <<>> ELSE SubSeq(s, SetMin(keep), SetMax(keep))

\* full_title += content for every chunk with content
RECURSIVE Accumulate(_)
Accumulate(chunks) ==
    IF chunks = <<>> THEN <<>> ELSE Head(chunks) \o Accumulate(Tail(chunks))

\* think blocks, surrounding whitespace and surrounding quotes are removed
CleanTitle(full_title) == Strip(StripQuotes(Strip(SubThink(full_title))))

\* the title is cut after the limit and the dots are added to it
TruncateTitle_CutAtLimit(full_title) ==
    IF Len(full_title) > TitleLimit THEN Take(full_title, TitleLimit) \o Dots
    ELSE full_title

\* if len(full_title) > 50: full_title = full_title[:47] + "..."
TruncateTitle(full_title) ==
    IF Len(full_title) > TitleLimit THEN Take(full_title, TitleKeep) \o Dots
    ELSE full_title

\* the user message is cut without the dots
FallbackTitle_NoDots(message) ==
    IF Len(message) > FallbackLimit THEN Take(message, FallbackLimit) ELSE message

\* user_message[:30] + "..." if len(user_message) > 30 else user_message
FallbackTitle(message) ==
    IF Len(message) > FallbackLimit THEN Take(message, FallbackLimit) \o Dots
    ELSE message

\* the same expression in handle_send_message, on its own argument
WindowFallbackTitle(content) ==
    IF Len(content) > FallbackLimit THEN Take(content, FallbackLimit) \o Dots
    ELSE content

PromptIntro ==
    <<"B", "a", "s", "e", "d", " ", "o", "n", " ", "t", "h", "i", "s", " ", "c", "o", "n", "v", "e", "r", "s", "a", "t", "i", "o", "n", ",", " ", "g", "e", "n", "e", "r", "a", "t", "e", " ", "a", " ", "v", "e", "r", "y", " ", "s", "h", "o", "r", "t", ",", " ", "c", "o", "n", "c", "i", "s", "e", " ", "t", "i", "t", "l", "e", " ", "(", "m", "a", "x", "i", "m", "u", "m", " ", "5", " ", "w", "o", "r", "d", "s", ",", " ", "n", "o", " ", "q", "u", "o", "t", "e", "s", ")", ":", "\n", "\n">>

\* the f-string of the prompt
TitlePrompt(user, assistant) ==
    PromptIntro
    \o <<"U", "s", "e", "r", ":", " ">> \o Take(user, PromptCut)
    \o <<"\n", "A", "s", "s", "i", "s", "t", "a", "n", "t", ":", " ">> \o Take(Strip(SubThink(assistant)), PromptCut)
    \o <<"\n", "\n", "T", "i", "t", "l", "e", ":">>

\* the prompt goes out without a directive
TitleMessages_Plain(caps, prompt) == << [role |-> "user", content |-> prompt] >>

\* messages = [{'role': 'user', 'content': prompt}], with /no_think in front
\* for a directive model
TitleMessages(caps, prompt) ==
    << [role |-> "user",
        content |-> IF caps.thinking_method = "directive" /\ caps.thinking
                    THEN Directive(FALSE) \o <<"\n">> \o prompt
                    ELSE prompt] >>

\* the keyword arguments of client.chat; think = <<>> stands for no 'think' key
TitleKwargs(model, caps, msgs) ==
    [model |-> model, messages |-> msgs, stream |-> TRUE,
     think |-> IF caps.thinking_method = "parameter" /\ caps.thinking
               THEN <<FALSE>> ELSE <<>>]

\* what the window keeps: the generated title, or its own fallback when the
\* generator gave nothing
WindowTitle(new_title, content) ==
    IF new_title # <<>> /\ Strip(new_title) # <<>> THEN new_title
    ELSE WindowFallbackTitle(content)

\* n times the character c
Rep(c, n) == [i \in 1..n |-> c]

\* first messages of a chat, as on_send passes them on: stripped, not empty
UserTexts == { Hi, Rep("u", 30), Rep("u", 31), Rep("u", 40) }

AssistantTexts ==
    { <<"I", " ", "a", "m", " ", "d", "o", "i", "n", "g", " ", "w", "e", "l", "l", "!">>,
      OpenTag \o <<"r">> \o CloseTag \o <<" ", "F", "i", "n", "e", ",", " ", "t", "h", "a", "n", "k", "s", ".">> }

\* what the model streams when asked for a title: nothing, a short title in
\* two chunks, titles around the limit, a quoted title, a think block alone
\* and in front of a long title, whitespace, quotes
TitleStreams ==
    { <<>>,
      << <<"M", "y">>, <<" ", "t", "i", "t", "l", "e">> >>,
      << Rep("x", 50) >>,
      << Rep("x", 51) >>,
      << Rep("x", 30), Rep("y", 30) >>,
      << <<"\"">> \o Rep("x", 50) \o <<"\"">> >>,
      << OpenTag \o <<"r">> \o CloseTag >>,
      << OpenTag \o <<"r">> \o CloseTag \o <<" ">>, Rep("x", 51) \o <<"\n">> >>,
      << <<" ">>, <<"\n">> >>,
      << <<"\"", "'">> >> }

\* every result get_model_capabilities can return
CapabilityResults ==
    {FromDetails(n, d) : n \in ModelNames, d \in ShowResponses}
    \cup {FallbackResult(n) : n \in ModelNames}

\* no title is being generated
NoTitle ==
    /\ title_pc = "idle"
    /\ user_message = <<>>
    /\ assistant_message = <<>>
    /\ title_caps = NoResult
    /\ title_parts = <<>>
    /\ title_request = <<>>
    /\ title_yield = <<>>
    /\ title_failed = FALSE
    /\ chat_title = <<>>

---------------------------------------------------------------------------
(* Two chat_stream calls at once *)

StreamIds == {1, 2}

\* buffered_content = "", in_thinking_section = False, think_buffer = ""
FreshLocals == [buf |-> <<>>, inside |-> FALSE, think |-> <<>>]

\* the locals live on the object, one set for all calls
Frame_Shared(s) == 1

\* the locals of a call live in the frame of that call
Frame(s) == s

\* no chat_stream call of this kind is running
NoTwin ==
    /\ twin = [s \in StreamIds |->
                 [method |-> "None", parts |-> <<>>, received |-> 0, out |-> <<>>,
                  pc |-> "idle"]]
    /\ twin_locals = [f \in StreamIds |-> FreshLocals]

---------------------------------------------------------------------------
(* test_directives_actual.py: the directive step the test applies to a copy *)

\* for msg in messages_thinking: if msg.get('role') == 'user': ...; break
TestDirectiveStep(method, msgs, enable) ==
    IF method = "directive" /\ msgs # <<>>
    THEN [i \in 1..Len(msgs) |->
            IF msgs[i].role = "user" /\ \A j \in 1..(i - 1) : msgs[j].role # "user"
            THEN [msgs[i] EXCEPT !.content = Directive(enable) \o <<"\n">> \o @]
            ELSE msgs[i]]
    ELSE msgs

\* the message history of the test
TestHistory ==
    << Message("user", <<"H", "e", "l", "l", "o", ",", " ", "h", "o", "w", " ", "a", "r", "e", " ", "y", "o", "u", "?">>, <<>>),
       Message("assistant", <<"I", " ", "a", "m", " ", "d", "o", "i", "n", "g", " ", "w", "e", "l", "l", "!">>, <<>>),
       Message("user", <<"W", "h", "a", "t", " ", "i", "s", " ", "2", "+", "2", "?">>, <<>>) >>

\* the test is not running
NoTest == test_messages = <<>>

---------------------------------------------------------------------------
(* MainWindow.handle_send_message: the tasks that qasync.asyncSlot starts *)

Tasks == 1..MaxSends

\* how far a task has run: not created; created by the slot and waiting for
\* the event loop; inside add_message (QApplication.processEvents); awaiting
\* the chat stream; awaiting the title stream; returned; returned at once
TaskStates == {"none", "scheduled", "shown", "streaming", "titling", "done", "refused"}

\* a task is between two awaits: only nested event processing can run
MidHandler == \E t \in Tasks : task[t] = "shown"

---------------------------------------------------------------------------
(* The chats: chat_manager's tables as far as the window reads them *)

\* self.current_chat_id = None
NoChatId == 0

\* primary keys of the chats table
ChatIds == {1, 2}

\* a chat as create_chat(title="New Chat") makes it
NewChat == [row |-> "live", messages |-> 0, titled |-> FALSE]

\* a key that was never given to a chat
UnusedId == [row |-> "none", messages |-> 0, titled |-> FALSE]

\* the key create_chat or fork_chat gives to the next chat
FreeIds(st) == {c \in ChatIds : st[c].row = "none"}

NextChatId(st) == SetMin(FreeIds(st))

\* session.query(Chat).filter(Chat.id == chat_id).first() finds a row
ChatExists(st, c) == c \in ChatIds /\ st[c].row = "live"

\* chat_manager.add_message: the chat gets one more message; with chat_id None
\* the insert fails (nullable=False), with the key of a deleted chat the row
\* belongs to no chat
AddMessage(st, c) ==
    IF ChatExists(st, c) THEN [st EXCEPT ![c].messages = @ + 1] ELSE st

\* chat_manager.update_chat_title
UpdateChatTitle(st, c) ==
    IF ChatExists(st, c) THEN [st EXCEPT ![c].titled = TRUE] ELSE st

\* chat_manager.delete_chat: the row and, by the cascade, its messages
DeletedChat == [row |-> "deleted", messages |-> 0, titled |-> FALSE]

\* chat_area.clear() and one add_message per stored message
DisplayOf(st, c) == [i \in 1..st[c].messages |-> c]

\* MainWindow.is_any_generation_active
is_any_generation_active == generating_title \/ generating_response

\* the window after construction: nothing is generated, no chat is selected,
\* and the store holds one chat of an earlier session
NoSend ==
    /\ generating_response = FALSE
    /\ generating_title = FALSE
    /\ is_generating = FALSE
    /\ is_generating_title = FALSE
    /\ task = [t \in Tasks |-> "none"]
    /\ taken = [t \in Tasks |-> 0]
    /\ click = "none"
    /\ current_chat_id = NoChatId
    /\ store = [c \in ChatIds |-> IF c = 1 THEN NewChat ELSE UnusedId]
    /\ displayed = <<>>
    /\ saved_to = [t \in Tasks |-> [user |-> <<>>, reply |-> <<>>]]

---------------------------------------------------------------------------
(* handle_send_message: the request of each turn of a chat *)

\* a row of the message table, as far as the payload reads it
StoredMessage(role, content) == [role |-> role, content |-> content]

\* the payload carrying the texts of the previous request instead of the
\* stored ones: the user messages still have the directive of the last turn
MessagesPayload_Prefixed(h) ==
    [i \in 1..Len(h) |->
        Message(h[i].role,
                IF h[i].role = "user" /\ i < Len(h)
                THEN Directive(TRUE) \o <<"\n">> \o h[i].content
                ELSE h[i].content,
                <<>>)]

\* [{'role': msg.role, 'content': msg.content} for msg in history]
MessagesPayload(h) ==
    [i \in 1..Len(h) |-> Message(h[i].role, h[i].content, <<>>)]

\* what the user types
TurnTexts == {Hi, <<"a">>}

\* what the model answers: full_response, possibly empty
TurnReplies == {Ok, <<>>}

\* no turn has been taken
NoTurns ==
    /\ history = <<>>
    /\ turns = 0

---------------------------------------------------------------------------
(* The state machine of one chat_stream call *)

\* history fields added to each dict: the chunk count when it was produced,
\* and whether the loop body, the final flush or the except clause made it
Mark(out, n, o) ==
    [i \in 1..Len(out) |->
        [thinking |-> out[i].thinking, content |-> out[i].content,
         src |-> n, origin |-> o]]

\* handle_send_message is not running: chat_stream is driven by a caller that
\* takes every dict
NoWindow ==
    /\ ui_pc = "none"
    /\ stop_requested = FALSE
    /\ full_response = <<>>
    /\ full_thinking = <<>>
    /\ shown = [thinking |-> <<>>, response |-> <<>>]
    /\ consumed = 0
    /\ handled = 0
    /\ saved = <<>>

\* the locals of chat_stream before its loop
StreamStart ==
    /\ received = 0
    /\ buffered_content = <<>>
    /\ in_thinking_section = FALSE
    /\ think_buffer = <<>>
    /\ pending = <<>>
    /\ yielded = <<>>
    /\ failed = FALSE
    /\ propagated = FALSE
    /\ pc = "call"

Init ==
    /\ NoTurns
    /\ NoSend
    /\ NoTest
    /\ NoTwin
    /\ NoTitle
    /\ NoWindow
    /\ NoCalls
    /\ OneQuestion
    /\ thinking_method \in ThinkingMethods
    /\ parts \in Streams
    /\ StreamStart

(* When each step can be taken: where the generator stands, and whether the *)
(* caller has taken every dict of the previous step (the generator runs on   *)
(* only when the caller asks for the next dict).                            *)

\* the caller is waiting in `async for chunk in stream`
CallerAsks == ui_pc = "none" \/ (ui_pc = "loop" /\ consumed = Len(yielded))

CanAttachImages == CallerAsks /\ pc = "call"

CanBuildRequest == CallerAsks /\ pc = "caps"

CanOpenStream == CallerAsks /\ pc = "start"

CanNextPart == CallerAsks /\ pc = "streaming" /\ pending = <<>> /\ received < Len(parts)

CanYield == CallerAsks /\ pending # <<>>

CanStreamEnd == CallerAsks /\ pc = "streaming" /\ pending = <<>> /\ received = Len(parts)

CanRaise == CallerAsks /\ pc \in {"start", "streaming"} /\ pending = <<>>

CanReturn == CallerAsks /\ pc = "ending" /\ pending = <<>>

\* some step of the stream can be taken
CanStep ==
    CanAttachImages \/ CanBuildRequest \/ CanOpenStream \/ CanNextPart \/ CanYield \/ CanStreamEnd \/ CanRaise \/ CanReturn

\* the images are attached; get_model_capabilities is awaited next
AttachImages ==
    /\ CanAttachImages
    /\ messages' = AttachTo(messages, images)
    /\ pc' = "caps"
    /\ UNCHANGED <<thinking_method, parts, received, buffered_content,
                   in_thinking_section, think_buffer, pending, yielded,
                   failed, propagated>>
    /\ UNCHANGED <<call_messages, enable_thinking, images, chat_kwargs>>
    /\ UNCHANGED <<uiVars, capVars, titleVars, twinVars, testVars, sendVars, turnVars>>

\* the capabilities are known: the directive is written into the messages
\* and the keyword arguments are built
BuildRequest ==
    /\ CanBuildRequest
    /\ messages' = InjectDirective(thinking_method, messages, enable_thinking)
    /\ chat_kwargs' = <<ChatKwargs(model_name, thinking_method,
                                   InjectDirective(thinking_method, messages,
                                                   enable_thinking),
                                   enable_thinking)>>
    /\ pc' = "start"
    /\ UNCHANGED <<thinking_method, parts, received, buffered_content,
                   in_thinking_section, think_buffer, pending, yielded,
                   failed, propagated>>
    /\ UNCHANGED <<call_messages, enable_thinking, images>>
    /\ UNCHANGED <<uiVars, capVars, titleVars, twinVars, testVars, sendVars, turnVars>>

\* `await self.client.chat(**chat_kwargs)` returns the stream
OpenStream ==
    /\ CanOpenStream
    /\ pc' = "streaming"
    /\ UNCHANGED <<thinking_method, parts, received, buffered_content,
                   in_thinking_section, think_buffer, pending, yielded,
                   failed, propagated>>
    /\ UNCHANGED <<requestVars, uiVars, capVars, titleVars, twinVars, testVars, sendVars, turnVars>>

\* the async for loop takes the next chunk and runs the loop body on it
NextPart ==
    /\ CanNextPart
    /\ LET r == LoopBody(thinking_method, buffered_content, in_thinking_section,
                         think_buffer, parts[received + 1])
       IN  /\ pending' = Mark(r.out, received + 1, "part")
           /\ buffered_content' = r.buf
           /\ in_thinking_section' = r.inside
           /\ think_buffer' = r.think
    /\ received' = received + 1
    /\ UNCHANGED <<thinking_method, parts, yielded, failed, propagated, pc>>
    /\ UNCHANGED <<requestVars, uiVars, capVars, titleVars, twinVars, testVars, sendVars, turnVars>>

\* a `yield`: the caller receives the next dict
Yield ==
    /\ CanYield
    /\ yielded' = Append(yielded, Head(pending))
    /\ pending' = Tail(pending)
    /\ UNCHANGED <<thinking_method, parts, received, buffered_content,
                   in_thinking_section, think_buffer, failed, propagated, pc>>
    /\ UNCHANGED <<requestVars, uiVars, capVars, titleVars, twinVars, testVars, sendVars, turnVars>>

\* the backend stream is exhausted: the code after the loop
StreamEnd ==
    /\ CanStreamEnd
    /\ pending' = Mark(EndOfStreamFlush(buffered_content), received, "flush")
    /\ pc' = "ending"
    /\ UNCHANGED <<thinking_method, parts, received, buffered_content,
                   in_thinking_section, think_buffer, yielded, failed, propagated>>
    /\ UNCHANGED <<requestVars, uiVars, capVars, titleVars, twinVars, testVars, sendVars, turnVars>>

\* the backend raises, while the stream is opened or while the next chunk is awaited
Raise ==
    /\ CanRaise
    /\ failed' = TRUE
    /\ pending' = Mark(ExceptClause.out, received, "error")
    /\ propagated' = ExceptClause.propagated
    /\ pc' = "ending"
    /\ UNCHANGED <<thinking_method, parts, received, buffered_content,
                   in_thinking_section, think_buffer, yielded>>
    /\ UNCHANGED <<requestVars, uiVars, capVars, titleVars, twinVars, testVars, sendVars, turnVars>>

\* the generator returns: the caller's async for loop ends
Return ==
    /\ CanReturn
    /\ pc' = "done"
    /\ UNCHANGED <<thinking_method, parts, received, buffered_content,
                   in_thinking_section, think_buffer, pending, yielded,
                   failed, propagated>>
    /\ UNCHANGED <<requestVars, uiVars, capVars, titleVars, twinVars, testVars, sendVars, turnVars>>

Next ==
    \/ AttachImages
    \/ BuildRequest
    \/ OpenStream
    \/ NextPart
    \/ Yield
    \/ StreamEnd
    \/ Raise
    \/ Return

Spec == Init /\ [][Next]_vars

TypeOK ==
    /\ thinking_method \in ThinkingMethods
    /\ received \in 0..Len(parts)
    /\ in_thinking_section \in BOOLEAN
    /\ failed \in BOOLEAN
    /\ propagated \in BOOLEAN
    /\ pc \in {"call", "caps", "start", "streaming", "ending", "done"}
    /\ enable_thinking \in BOOLEAN
    /\ Len(chat_kwargs) <= 1
    /\ Len(messages) = Len(call_messages)
    /\ ui_pc \in {"none", "loop", "saved"}
    /\ stop_requested \in BOOLEAN
    /\ consumed \in 0..Len(yielded)
    /\ handled \in 0..consumed
    /\ Len(saved) <= 1

---------------------------------------------------------------------------
(* MainWindow.handle_send_message from `async for chunk in stream` to the  *)
(* saved assistant message, and MainWindow.handle_stop_requested.  Between  *)
(* two dicts the handler is suspended and other slots of the window run; a  *)
(* break runs on to add_message without another suspension.                *)

\* f"[Error: {str(e)}]"
WindowError == <<"[", "E", "r", "r", "o", "r", ":", " ", "e", "]">>

\* the loop body checks the flag only after a dict has arrived, and appends after it
LoopIteration_CheckAfter(stop, fr, ft, sh, chunk) ==
    [stopped |-> stop,
     full_thinking |-> ft \o chunk.thinking,
     full_response |-> fr \o chunk.content,
     shown |-> [thinking |-> IF chunk.thinking # <<>> THEN ft \o chunk.thinking
                             ELSE sh.thinking,
                response |-> IF chunk.content # <<>> THEN fr \o chunk.content
                             ELSE sh.response]]

\* one run of the loop body on a received dict
LoopIteration(stop, fr, ft, sh, chunk) ==
    IF stop
    THEN [stopped |-> TRUE, full_thinking |-> ft, full_response |-> fr, shown |-> sh]
    ELSE LET thinking_chunk == chunk.thinking
             content_chunk == chunk.content
             ft2 == IF thinking_chunk # <<>> THEN ft \o thinking_chunk ELSE ft
             fr2 == IF content_chunk # <<>> THEN fr \o content_chunk ELSE fr
         IN  [stopped |-> FALSE,
              full_thinking |-> ft2,
              full_response |-> fr2,
              shown |-> [thinking |-> IF thinking_chunk # <<>> THEN ft2 ELSE sh.thinking,
                         response |-> IF content_chunk # <<>> THEN fr2 ELSE sh.response]]

\* the except clauses: an exception out of the stream leaves an error text
\* when nothing was accumulated
AfterLoop(fr, raised) == IF raised /\ fr = <<>> THEN WindowError ELSE fr

\* the reply is saved without its thinking text
AssistantMessage_NoThinking(fr, ft) ==
    [role |-> "assistant", content |-> fr, thinking |-> <<>>]

\* chat_manager.add_message(self.current_chat_id, "assistant", full_response,
\*                          thinking=full_thinking)
AssistantMessage(fr, ft) ==
    [role |-> "assistant", content |-> fr, thinking |-> ft]

\* the state at `async for chunk in stream`, after the flags were set
WindowStart ==
    /\ ui_pc = "loop"
    /\ stop_requested = FALSE
    /\ full_response = <<>>
    /\ full_thinking = <<>>
    /\ shown = [thinking |-> <<>>, response |-> <<>>]
    /\ consumed = 0
    /\ handled = 0
    /\ saved = <<>>

\* model output as the window sees it: plain text, native thinking, tagged text
ChatChunks ==
    { Text(<<"a">>),
      Chunk(<<"r">>, <<>>),
      Chunk(<<"r">>, <<"b">>),
      Text(OpenTag \o <<"t">> \o CloseTag \o <<"c">>) }

ChatStreams ==
    UNION {[1..n -> ChatChunks] : n \in 0..MaxParts} \cup ExampleStreams

InitChat ==
    /\ NoTurns
    /\ NoSend
    /\ NoTest
    /\ NoTwin
    /\ NoTitle
    /\ WindowStart
    /\ NoCalls
    /\ OneQuestion
    /\ thinking_method \in ThinkingMethods
    /\ parts \in ChatStreams
    /\ StreamStart

\* MainWindow.handle_stop_requested
HandleStopRequested ==
    /\ ui_pc # "none"
    /\ stop_requested' = TRUE
    /\ UNCHANGED <<ui_pc, full_response, full_thinking, shown, consumed, handled, saved>>
    /\ UNCHANGED <<streamVars, requestVars, capVars, titleVars, twinVars, testVars, sendVars, turnVars>>

\* the loop is handed the next dict: it breaks, and the handler runs on to
\* the save, or it appends the dict's text and waits for the next one
Receive ==
    /\ ui_pc = "loop"
    /\ consumed < Len(yielded)
    /\ LET r == LoopIteration(stop_requested, full_response, full_thinking, shown,
                              yielded[consumed + 1])
       IN  /\ full_response' = r.full_response
           /\ full_thinking' = r.full_thinking
           /\ shown' = r.shown
           /\ IF r.stopped
              THEN /\ ui_pc' = "saved"
                   /\ saved' = <<AssistantMessage(r.full_response, r.full_thinking)>>
                   /\ handled' = handled
              ELSE /\ ui_pc' = "loop"
                   /\ saved' = saved
                   /\ handled' = handled + 1
    /\ consumed' = consumed + 1
    /\ UNCHANGED stop_requested
    /\ UNCHANGED <<streamVars, requestVars, capVars, titleVars, twinVars, testVars, sendVars, turnVars>>

\* the stream has ended: the loop is left, the reply is saved
LoopExit ==
    /\ ui_pc = "loop"
    /\ pc = "done"
    /\ consumed = Len(yielded)
    /\ full_response' = AfterLoop(full_response, propagated)
    /\ saved' = <<AssistantMessage(AfterLoop(full_response, propagated), full_thinking)>>
    /\ ui_pc' = "saved"
    /\ UNCHANGED <<stop_requested, full_thinking, shown, consumed, handled>>
    /\ UNCHANGED <<streamVars, requestVars, capVars, titleVars, twinVars, testVars, sendVars, turnVars>>

NextChat ==
    \/ Next
    \/ HandleStopRequested
    \/ Receive
    \/ LoopExit

SpecChat == InitChat /\ [][NextChat]_vars

---------------------------------------------------------------------------
(* chat_stream called with any of the histories, on a short stream *)

InitRequest ==
    /\ NoTurns
    /\ NoSend
    /\ NoTest
    /\ NoTwin
    /\ NoTitle
    /\ NoWindow
    /\ NoCalls
    /\ messages \in Histories
    /\ call_messages = messages
    /\ enable_thinking \in BOOLEAN
    /\ images \in ImageArgs
    /\ chat_kwargs = <<>>
    /\ thinking_method \in ThinkingMethods
    /\ parts \in {<<>>, NoTags}
    /\ StreamStart

SpecRequest == InitRequest /\ [][Next]_vars

---------------------------------------------------------------------------
(* The calls of get_model_capabilities: two tasks, one cache *)

InitCaps ==
    /\ NoTurns
    /\ NoSend
    /\ NoTest
    /\ NoTwin
    /\ NoTitle
    /\ OneQuestion
    /\ model_name \in ModelNames
    /\ details \in ShowResponses
    /\ CapsStart
    /\ NoWindow
    /\ thinking_method = "None"
    /\ parts = <<>>
    /\ StreamStart

\* a caller enters get_model_capabilities: the cache answers, or client.show
\* is asked and the caller is suspended
CallCapabilities(c) ==
    /\ cpc[c] \in {"idle", "returned"}
    /\ IF CacheHit(capabilities_cache, model_name)
       THEN /\ result' = [result EXCEPT ![c] = capabilities_cache[model_name][1]]
            /\ cpc' = [cpc EXCEPT ![c] = "returned"]
            /\ last' = [last EXCEPT ![c] = "hit"]
            /\ undisturbed' = [undisturbed EXCEPT ![c] = TRUE]
            /\ UNCHANGED requests
       ELSE /\ requests' = [requests EXCEPT ![c] = @ + 1]
            /\ cpc' = [cpc EXCEPT ![c] = "awaiting"]
            /\ last' = [last EXCEPT ![c] = "asked"]
            /\ UNCHANGED <<result, undisturbed>>
    /\ UNCHANGED <<model_name, details, capabilities_cache>>
    /\ UNCHANGED <<streamVars, requestVars, uiVars, titleVars, twinVars, testVars, sendVars, turnVars>>

\* client.show answers: the rest of the try block
ShowReturns(c) ==
    /\ cpc[c] = "awaiting"
    /\ LET r == FromDetails(model_name, details)
       IN  /\ capabilities_cache' = CacheWrite(capabilities_cache, model_name, r)
           /\ result' = [result EXCEPT ![c] = r]
    /\ cpc' = [cpc EXCEPT ![c] = "returned"]
    /\ last' = [last EXCEPT ![c] = "answered"]
    /\ undisturbed' = [d \in Callers |-> d = c]
    /\ UNCHANGED <<model_name, details, requests>>
    /\ UNCHANGED <<streamVars, requestVars, uiVars, titleVars, twinVars, testVars, sendVars, turnVars>>

\* client.show raises: the except clause
ShowFails(c) ==
    /\ cpc[c] = "awaiting"
    /\ LET e == ExceptShow(model_name)
       IN  IF e.raised
           THEN /\ cpc' = [cpc EXCEPT ![c] = "raised"]
                /\ UNCHANGED <<capabilities_cache, result, undisturbed>>
           ELSE /\ capabilities_cache' = CacheWrite(capabilities_cache, model_name, e.result)
                /\ result' = [result EXCEPT ![c] = e.result]
                /\ cpc' = [cpc EXCEPT ![c] = "returned"]
                /\ undisturbed' = [d \in Callers |-> d = c]
    /\ last' = [last EXCEPT ![c] = "failed"]
    /\ UNCHANGED <<model_name, details, requests>>
    /\ UNCHANGED <<streamVars, requestVars, uiVars, titleVars, twinVars, testVars, sendVars, turnVars>>

NextCaps ==
    \E c \in Callers :
        \/ CallCapabilities(c)
        \/ ShowReturns(c)
        \/ ShowFails(c)

SpecCaps == InitCaps /\ [][NextCaps]_vars

---------------------------------------------------------------------------
(* What the caller sees.  The caller reads each dict's thinking field and   *)
(* then its content field, and ignores an empty field: a dict is a         *)
(* ThinkingDelta, a ContentDelta, or one of each.                          *)

ThinkingDelta(t) == [kind |-> "ThinkingDelta", text |-> t]

ContentDelta(t) == [kind |-> "ContentDelta", text |-> t]

RECURSIVE Events(_)
Events(seq) ==
    IF seq = <<>> THEN <<>>
    ELSE LET d == Head(seq)
         IN  (IF d.thinking # <<>> THEN <<ThinkingDelta(d.thinking)>> ELSE <<>>)
             \o (IF d.content # <<>> THEN <<ContentDelta(d.content)>> ELSE <<>>)
             \o Events(Tail(seq))

\* the texts of the events of one kind (or of both kinds), concatenated in order
RECURSIVE TextOf(_, _)
TextOf(evs, kinds) ==
    IF evs = <<>> THEN <<>>
    ELSE (IF Head(evs).kind \in kinds THEN Head(evs).text ELSE <<>>)
         \o TextOf(Tail(evs), kinds)

ThinkingText(seq) == TextOf(Events(seq), {"ThinkingDelta"})

ContentText(seq) == TextOf(Events(seq), {"ContentDelta"})

AllText(seq) == TextOf(Events(seq), {"ThinkingDelta", "ContentDelta"})

\* the content fields of a stream, concatenated in order
RECURSIVE Joined(_)
Joined(stream) ==
    IF stream = <<>> THEN <<>> ELSE Head(stream).content \o Joined(Tail(stream))

StartsWith(s, pat) == Len(s) >= Len(pat) /\ SubSeq(s, 1, Len(pat)) = pat

EndsWith(s, pat) ==
    Len(s) >= Len(pat) /\ SubSeq(s, Len(s) - Len(pat) + 1, Len(s)) = pat

\* s with every <think> and </think> taken out, in one pass from the left
RECURSIVE RemoveTags(_)
RemoveTags(s) ==
    IF s = <<>> THEN <<>>
    ELSE IF StartsWith(s, OpenTag) THEN RemoveTags(Suffix(s, Len(OpenTag)))
    ELSE IF StartsWith(s, CloseTag) THEN RemoveTags(Suffix(s, Len(CloseTag)))
    ELSE <<Head(s)>> \o RemoveTags(Tail(s))

\* the classification the tag scheme defines for a text: what lies between
\* <think> and the next </think> is thinking, the rest is content
RECURSIVE Classify(_, _)
Classify(s, inside) ==
    LET tag == IF inside THEN CloseTag ELSE OpenTag
        p == Find(s, tag)
        here == IF p >= 0 THEN Prefix(s, p) ELSE s
        rest == IF p >= 0
                THEN Classify(Suffix(s, p + Len(tag)), ~inside)
                ELSE [thinking |-> <<>>, content |-> <<>>, inside |-> inside]
    IN  [thinking |-> (IF inside THEN here ELSE <<>>) \o rest.thinking,
         content  |-> (IF inside THEN <<>> ELSE here) \o rest.content,
         inside   |-> rest.inside]

\* a stream of a directive-mechanism model that carries text only, run to
\* its end without a failure
ParsedToEnd ==
    /\ pc = "done"
    /\ ~failed
    /\ thinking_method = "directive"
    /\ \A i \in 1..Len(parts) : parts[i].thinking = <<>>

\* the output of chat_stream's loop on a whole stream, as a function of it
RECURSIVE RunLoop(_, _, _, _, _)
RunLoop(method, buf, inside, tb, stream) ==
    IF stream = <<>> THEN EndOfStreamFlush(buf)
    ELSE LET r == LoopBody(method, buf, inside, tb, Head(stream))
         IN  r.out \o RunLoop(method, r.buf, r.inside, r.think, Tail(stream))

---------------------------------------------------------------------------
(* Claims *)

\* C1: a directive-mechanism model streaming ["Hello ", "<think>reasoning ",
\* "more</think> world"] yields exactly ContentDelta("Hello "),
\* ThinkingDelta("reasoning "), ThinkingDelta("more"), ContentDelta(" world"),
\* and then the stream ends.
C1_BasicSplit ==
    (ParsedToEnd /\ parts = BasicSplit) =>
        Events(yielded) =
            << ContentDelta(<<"H", "e", "l", "l", "o", " ">>),
               ThinkingDelta(<<"r", "e", "a", "s", "o", "n", "i", "n", "g", " ">>),
               ThinkingDelta(<<"m", "o", "r", "e">>),
               ContentDelta(<<" ", "w", "o", "r", "l", "d">>) >>

\* some tag marker lies across the boundary of fragments i and i+1
MarkerSplitAt(stream, i) ==
    \E tag \in {OpenTag, CloseTag} : \E k \in 1..(Len(tag) - 1) :
        /\ EndsWith(stream[i].content, Prefix(tag, k))
        /\ StartsWith(stream[i + 1].content, Suffix(tag, k))

\* every marker of the stream lies within one fragment, and the markers pair
\* up: each </think> closes a <think>, and no <think> is opened inside another
WellTagged(stream) ==
    /\ \A i \in 1..(Len(stream) - 1) : ~MarkerSplitAt(stream, i)
    /\ \A tag \in {OpenTag, CloseTag} :
           /\ ~Contains(Classify(Joined(stream), FALSE).thinking, tag)
           /\ ~Contains(Classify(Joined(stream), FALSE).content, tag)

\* C2: for every stream of a directive-mechanism model, the texts of all
\* emitted deltas, concatenated in order, are the fragments concatenated with
\* the tag markers removed, whitespace included.  Stated for the streams whose
\* markers are whole and paired, where "the markers removed" has one reading.
C2_NoTextDropped ==
    (ParsedToEnd /\ WellTagged(parts)) =>
        AllText(yielded) = RemoveTags(Joined(parts))

\* C3: when a tag marker is split across two consecutive fragments, the
\* marker is still recognised, so the thinking text and the content text of
\* the stream are those of the same text delivered as one fragment.
C3_CutIndependent ==
    (ParsedToEnd /\ \E i \in 1..(Len(parts) - 1) : MarkerSplitAt(parts, i)) =>
        LET whole == RunLoop(thinking_method, <<>>, FALSE, <<>>,
                             <<Text(Joined(parts))>>)
        IN  /\ ThinkingText(yielded) = ThinkingText(whole)
            /\ ContentText(yielded) = ContentText(whole)

\* C4: a single fragment holding complete <think>...</think> pairs has every
\* text inside a pair emitted as thinking, every text outside as content, and
\* no emitted delta contains a literal <think> or </think>.
C4_AllTransitions ==
    (/\ ParsedToEnd
     /\ Len(parts) = 1
     /\ Contains(parts[1].content, OpenTag)
     /\ ~Classify(parts[1].content, FALSE).inside) =>
        /\ ThinkingText(yielded) = Classify(parts[1].content, FALSE).thinking
        /\ ContentText(yielded) = Classify(parts[1].content, FALSE).content
        /\ \A i \in 1..Len(yielded) : \A tag \in {OpenTag, CloseTag} :
               ~Contains(yielded[i].thinking, tag) /\ ~Contains(yielded[i].content, tag)

\* the stream opens <think> in fragment i, none before, and its text after
\* that tag holds no </think>
UnterminatedAt(stream, i) ==
    /\ \A j \in 1..(i - 1) : ~Contains(stream[j].content, OpenTag)
    /\ Contains(stream[i].content, OpenTag)
    /\ ~Contains(Suffix(stream[i].content, Find(stream[i].content, OpenTag) + Len(OpenTag))
                    \o Joined(SubSeq(stream, i + 1, Len(stream))),
                 CloseTag)

\* all ContentDelta events come before all ThinkingDelta events
ContentThenThinking(evs) ==
    \A a, b \in 1..Len(evs) :
        (evs[a].kind = "ThinkingDelta" /\ evs[b].kind = "ContentDelta") => b < a

\* C5: when a stream opens <think> and ends without </think>, all text after
\* the opening tag is delivered as thinking, none of it as content, and the
\* stream ends (still inside the thinking section).
C5_UnterminatedThinking ==
    \A i \in 1..Len(parts) :
        (ParsedToEnd /\ UnterminatedAt(parts, i)) =>
            LET p == Find(parts[i].content, OpenTag)
            IN  /\ ThinkingText(yielded) =
                       Suffix(parts[i].content, p + Len(OpenTag))
                       \o Joined(SubSeq(parts, i + 1, Len(parts)))
                /\ ContentText(yielded) =
                       Joined(SubSeq(parts, 1, i - 1)) \o Prefix(parts[i].content, p)
                /\ ContentThenThinking(Events(yielded))
                /\ in_thinking_section

\* C5 witness: ["<think>partial"] has ended and delivered ThinkingDelta("partial");
\* so has a stream whose thinking runs on into a second fragment
C5_Witness ==
    /\ ParsedToEnd
    /\ \/ /\ parts = Unterminated
          /\ Events(yielded) = <<ThinkingDelta(<<"p", "a", "r", "t", "i", "a", "l">>)>>
       \/ /\ Len(parts) = 2
          /\ UnterminatedAt(parts, 1)
          /\ parts[2].content # <<>>
          /\ Len(Events(yielded)) >= 2

\* no fragment of the stream contains a tag marker
TagFree(stream) ==
    \A i \in 1..Len(stream) : \A tag \in {OpenTag, CloseTag} :
        ~Contains(stream[i].content, tag)

\* one ContentDelta per non-empty fragment, in order
RECURSIVE ContentPerFragment(_)
ContentPerFragment(stream) ==
    IF stream = <<>> THEN <<>>
    ELSE (IF Head(stream).content # <<>>
          THEN <<ContentDelta(Head(stream).content)>> ELSE <<>>)
         \o ContentPerFragment(Tail(stream))

\* C6: for a stream whose fragments contain no tag marker, each non-empty
\* fragment yields exactly one ContentDelta equal to it, in order, and no
\* ThinkingDelta is emitted.
C6_NoTags ==
    (ParsedToEnd /\ TagFree(parts)) => Events(yielded) = ContentPerFragment(parts)

\* C6 witness: ["abc", "def"] has ended with its two ContentDeltas delivered
C6_Witness ==
    /\ ParsedToEnd
    /\ parts = NoTags
    /\ Len(yielded) = 2

\* C7: every backend chunk that carries a non-empty thinking field has that
\* text delivered as thinking, whatever the thinking mechanism and whether or
\* not the chunk also carries content.
C7_ThinkingDelivered ==
    \A i \in 1..received :
        (pending = <<>> /\ parts[i].thinking # <<>>) =>
            \E k \in 1..Len(yielded) :
                /\ yielded[k].src = i
                /\ yielded[k].origin = "part"
                /\ yielded[k].thinking = parts[i].thinking

\* the dicts of a sequence that the loop body produced, without history fields
RECURSIVE PartDicts(_)
PartDicts(seq) ==
    IF seq = <<>> THEN <<>>
    ELSE (IF Head(seq).origin = "part"
          THEN <<Chunk(Head(seq).thinking, Head(seq).content)>> ELSE <<>>)
         \o PartDicts(Tail(seq))

\* each chunk that carries a field, as one dict with both fields unchanged
RECURSIVE Forwarded(_)
Forwarded(stream) ==
    IF stream = <<>> THEN <<>>
    ELSE (IF Head(stream).thinking # <<>> \/ Head(stream).content # <<>>
          THEN <<Chunk(Head(stream).thinking, Head(stream).content)>> ELSE <<>>)
         \o Forwarded(Tail(stream))

\* C8: for a model whose mechanism is not directive, each chunk's thinking and
\* content fields are forwarded unchanged, tags in the content included, and
\* the thinking section is never entered.
C8_ParserBypass ==
    thinking_method # "directive" =>
        /\ PartDicts(yielded \o pending) = Forwarded(SubSeq(parts, 1, received))
        /\ ~in_thinking_section
        /\ buffered_content = <<>>

\* C8 witness: a model without the directive mechanism has delivered content
\* that holds a whole <think>...</think> pair
C8_Witness ==
    /\ thinking_method # "directive"
    /\ pc = "done"
    /\ \E k \in 1..Len(yielded) :
           Contains(yielded[k].content, OpenTag) /\ Contains(yielded[k].content, CloseTag)

\* t can be obtained from s by deleting characters
RECURSIVE Embeds(_, _)
Embeds(s, t) ==
    IF t = <<>> THEN TRUE
    ELSE IF s = <<>> THEN FALSE
    ELSE IF Head(s) = Head(t) THEN Embeds(Tail(s), Tail(t))
    ELSE Embeds(Tail(s), t)

\* the dicts of a sequence that chunk i produced
RECURSIVE FromPart(_, _)
FromPart(seq, i) ==
    IF seq = <<>> THEN <<>>
    ELSE (IF Head(seq).origin = "part" /\ Head(seq).src = i THEN <<Head(seq)>> ELSE <<>>)
         \o FromPart(Tail(seq), i)

\* the dicts delivered so far are in the order of the chunks they come from,
\* the text of the dicts of one chunk is text of that chunk taken at most once,
\* and what the flush or the except clause adds comes last
C9_InOrderOnce ==
    /\ \A a, b \in 1..Len(yielded) : a < b => yielded[a].src <= yielded[b].src
    /\ \A a \in 1..Len(yielded) :
           yielded[a].origin # "part" => a = Len(yielded)
    /\ \A i \in 1..received :
           Embeds(parts[i].thinking \o parts[i].content, AllText(FromPart(yielded, i)))

\* an upper bound on the steps the stream still takes: at most three dicts
\* come from one chunk
StepsLeft ==
    4 * (Len(parts) - received) + Len(pending)
    + (IF pc = "call" THEN 6 ELSE IF pc = "caps" THEN 5
       ELSE IF pc = "start" THEN 4 ELSE IF pc = "streaming" THEN 3
       ELSE IF pc = "ending" THEN 1 ELSE 0)

\* a step delivers at most one more dict, after those already delivered, none
\* once the stream has ended, and brings the end of the stream nearer
C9_Step ==
    /\ \/ yielded' = yielded
       \/ /\ pending # <<>>
          /\ yielded' = Append(yielded, Head(pending))
    /\ pc = "done" => yielded' = yielded
    /\ StepsLeft' < StepsLeft

\* C9: the deltas of a stream reach the caller in the order of the backend
\* chunks they come from, each once and no text in two deltas, and every
\* stream, completed or failed, ends after its last delta: short of the end a
\* step is always possible, and every step brings the end nearer.
C9_OrderedOnceTerminated ==
    /\ [](C9_InOrderOnce)
    /\ [][C9_Step]_vars
    /\ []((pc = "done" /\ pending = <<>>) \/ CanStep)

\* C9 witness: a failed stream has ended after delivering the deltas of two
\* different chunks and then the error marker
C9_Witness ==
    /\ pc = "done"
    /\ failed
    /\ \E a, b \in 1..Len(yielded) :
           /\ yielded[a].origin = "part"
           /\ yielded[b].origin = "part"
           /\ yielded[a].src < yielded[b].src

\* how many dicts of a sequence the except clause produced
RECURSIVE ErrorCount(_)
ErrorCount(seq) ==
    IF seq = <<>> THEN 0
    ELSE (IF Head(seq).origin = "error" THEN 1 ELSE 0) + ErrorCount(Tail(seq))

\* after a failure no exception has left chat_stream, and the stream's last
\* dict, and only that one, is the ContentDelta with the error marker
C10_Absorbed ==
    failed =>
        LET all == yielded \o pending
        IN  /\ ~propagated
            /\ ErrorCount(all) = 1
            /\ all # <<>>
            /\ all[Len(all)].origin = "error"
            /\ Events(<<all[Len(all)]>>) = <<ContentDelta(ErrorMarker)>>
            /\ pc \in {"ending", "done"}

\* the failing step leaves the delivered deltas delivered, and no later step
\* takes one back
C10_Step ==
    /\ (~failed /\ failed') => yielded' = yielded
    /\ Len(yielded') >= Len(yielded)
    /\ SubSeq(yielded', 1, Len(yielded)) = yielded

\* C10: if the backend raises, before the first chunk or mid-stream, the
\* deltas already yielded stay delivered, then exactly one ContentDelta with
\* the error marker is yielded and the stream ends; no exception propagates.
C10_FailureAbsorbed ==
    /\ [](C10_Absorbed)
    /\ [][C10_Step]_vars
    /\ [](pc = "done" => pending = <<>>)

\* C10 witness: a stream that failed mid-stream has ended, with deltas of
\* chunks delivered before the error marker
C10_Witness ==
    /\ failed
    /\ pc = "done"
    /\ received >= 1
    /\ Len(yielded) >= 2
    /\ yielded[Len(yielded)].content = ErrorMarker

---------------------------------------------------------------------------
(* C11: cancellation cuts the stream at chunk granularity.  Once the stop  *)
(* flag is set, no step appends anything to the accumulated response or    *)
(* thinking or changes what the widget shows, no further dict gets past    *)
(* the stop check, and the step that hands the loop its next dict ends the *)
(* loop.                                                                   *)
C11_Step ==
    stop_requested =>
        /\ full_response' = full_response
        /\ full_thinking' = full_thinking
        /\ shown' = shown
        /\ handled' = handled
        /\ (consumed' # consumed => ui_pc = "loop" /\ ui_pc' # "loop")

C11_CutAtChunk == [][C11_Step]_vars

\* stopped after one dict was processed; the next dict carried text and was dropped
C11_Witness ==
    /\ stop_requested
    /\ ui_pc = "saved"
    /\ handled = 1
    /\ consumed = 2
    /\ yielded[2].content # <<>>
    /\ full_response = yielded[1].content
    /\ full_response # <<>>

(* C12: cancellation never discards partial content.  At every moment the  *)
(* accumulated thinking and response are exactly the text of the dicts     *)
(* that got past the stop check, and when the loop was left by the stop    *)
(* flag, exactly that text is saved as the assistant message, so the saved *)
(* content is non-empty whenever content had accumulated.                  *)
Kept == SubSeq(yielded, 1, handled)

StoppedAndSaved == ui_pc = "saved" /\ consumed > handled

C12_PartialKept ==
    /\ ui_pc = "loop" \/ StoppedAndSaved =>
           /\ full_response = ContentText(Kept)
           /\ full_thinking = ThinkingText(Kept)
    /\ StoppedAndSaved =>
           /\ saved = <<[role |-> "assistant",
                         content |-> ContentText(Kept),
                         thinking |-> ThinkingText(Kept)]>>
           /\ (ContentText(Kept) # <<>> => saved[1].content # <<>>)

\* stopped with both thinking and content accumulated, and more text on the way
C12_Witness ==
    /\ StoppedAndSaved
    /\ handled >= 1
    /\ saved # <<>>
    /\ saved[1].content # <<>>
    /\ saved[1].thinking # <<>>
    /\ AllText(SubSeq(yielded, handled + 1, Len(yielded))) # <<>>

---------------------------------------------------------------------------
(* One title generation: generate_chat_title and the window's loop over it *)

\* no chat_stream call and no streaming loop of the window
NoChat ==
    /\ NoWindow
    /\ OneQuestion
    /\ thinking_method = "None"
    /\ parts = <<>>
    /\ StreamStart

InitTitle ==
    /\ NoTurns
    /\ NoSend
    /\ NoTest
    /\ NoTwin
    /\ NoChat
    /\ NoCalls
    /\ title_pc = "call"
    /\ user_message \in UserTexts
    /\ assistant_message \in AssistantTexts
    /\ title_caps \in CapabilityResults
    /\ title_parts \in TitleStreams
    /\ title_request = <<>>
    /\ title_yield = <<>>
    /\ title_failed = FALSE
    /\ chat_title = <<>>

\* the prompt and the request are built; client.chat is awaited
TitleCall ==
    /\ title_pc = "call"
    /\ title_request' =
          <<TitleKwargs(model_name, title_caps,
                        TitleMessages(title_caps,
                                      TitlePrompt(user_message, assistant_message)))>>
    /\ title_pc' = "streaming"
    /\ UNCHANGED <<user_message, assistant_message, title_caps, title_parts,
                   title_yield, title_failed, chat_title>>
    /\ UNCHANGED <<streamVars, requestVars, uiVars, capVars, twinVars, testVars, sendVars, turnVars>>

\* the stream ends: the title is cleaned and cut, and yielded if not empty
TitleAnswer ==
    /\ title_pc = "streaming"
    /\ LET full_title == TruncateTitle(CleanTitle(Accumulate(title_parts)))
       IN  title_yield' = IF full_title # <<>> THEN <<full_title>> ELSE <<>>
    /\ title_pc' = "returned"
    /\ UNCHANGED <<user_message, assistant_message, title_caps, title_parts,
                   title_request, title_failed, chat_title>>
    /\ UNCHANGED <<streamVars, requestVars, uiVars, capVars, twinVars, testVars, sendVars, turnVars>>

\* client.chat or its stream raises: the except clause yields the fallback
TitleFail ==
    /\ title_pc = "streaming"
    /\ title_failed' = TRUE
    /\ title_yield' = <<FallbackTitle(user_message)>>
    /\ title_pc' = "returned"
    /\ UNCHANGED <<user_message, assistant_message, title_caps, title_parts,
                   title_request, chat_title>>
    /\ UNCHANGED <<streamVars, requestVars, uiVars, capVars, twinVars, testVars, sendVars, turnVars>>

\* the window has collected what was yielded and saves the title of the chat
TitleSave ==
    /\ title_pc = "returned"
    /\ chat_title' = <<WindowTitle(Accumulate(title_yield), user_message)>>
    /\ title_pc' = "saved"
    /\ UNCHANGED <<user_message, assistant_message, title_caps, title_parts,
                   title_request, title_yield, title_failed>>
    /\ UNCHANGED <<streamVars, requestVars, uiVars, capVars, twinVars, testVars, sendVars, turnVars>>

NextTitle ==
    \/ TitleCall
    \/ TitleAnswer
    \/ TitleFail
    \/ TitleSave

SpecTitle == InitTitle /\ [][NextTitle]_vars

---------------------------------------------------------------------------
(* Two chat_stream calls whose chunks arrive in any order *)

\* a tag opened in one chunk and closed in the next
OpenThenClose ==
    << Text(<<"a">> \o OpenTag \o <<"b">>), Text(<<"c">> \o CloseTag \o <<"d">>) >>

TwinStreams == {<<>>, BasicSplit, NoTags, Unterminated, OpenThenClose}

InitTwin ==
    /\ NoTurns
    /\ NoSend
    /\ NoTest
    /\ NoChat
    /\ NoCalls
    /\ NoTitle
    /\ twin \in [StreamIds ->
                   [method : {"None", "directive"}, parts : TwinStreams, received : {0},
                    out : {<<>>}, pc : {"call"}]]
    /\ twin_locals = [f \in StreamIds |-> FreshLocals]

\* the call reaches its loop: its locals are created
TwinOpen(s) ==
    /\ twin[s].pc = "call"
    /\ twin_locals' = [twin_locals EXCEPT ![Frame(s)] = FreshLocals]
    /\ twin' = [twin EXCEPT ![s].pc = "streaming"]
    /\ UNCHANGED <<streamVars, requestVars, uiVars, capVars, titleVars, testVars, sendVars, turnVars>>

\* the call takes its next chunk and runs the loop body on it
TwinNextPart(s) ==
    /\ twin[s].pc = "streaming"
    /\ twin[s].received < Len(twin[s].parts)
    /\ LET l == twin_locals[Frame(s)]
           r == LoopBody(twin[s].method, l.buf, l.inside, l.think,
                         twin[s].parts[twin[s].received + 1])
       IN  /\ twin_locals' = [twin_locals EXCEPT
                                ![Frame(s)] = [buf |-> r.buf, inside |-> r.inside,
                                               think |-> r.think]]
           /\ twin' = [twin EXCEPT ![s].received = @ + 1, ![s].out = @ \o r.out]
    /\ UNCHANGED <<streamVars, requestVars, uiVars, capVars, titleVars, testVars, sendVars, turnVars>>

\* the stream of the call is exhausted: the code after the loop
TwinEnd(s) ==
    /\ twin[s].pc = "streaming"
    /\ twin[s].received = Len(twin[s].parts)
    /\ twin' = [twin EXCEPT ![s].out = @ \o EndOfStreamFlush(twin_locals[Frame(s)].buf),
                            ![s].pc = "done"]
    /\ UNCHANGED twin_locals
    /\ UNCHANGED <<streamVars, requestVars, uiVars, capVars, titleVars, testVars, sendVars, turnVars>>

NextTwin ==
    \E s \in StreamIds :
        \/ TwinOpen(s)
        \/ TwinNextPart(s)
        \/ TwinEnd(s)

SpecTwin == InitTwin /\ [][NextTwin]_vars

---------------------------------------------------------------------------
(* The directive step of chat_stream and that of the test, on one history *)

InitTest ==
    /\ NoTurns
    /\ NoSend
    /\ NoWindow
    /\ NoCalls
    /\ NoTitle
    /\ NoTwin
    /\ NoTest
    /\ messages \in Histories \cup {TestHistory}
    /\ call_messages = messages
    /\ enable_thinking \in BOOLEAN
    /\ images = NoImages
    /\ chat_kwargs = <<>>
    /\ thinking_method \in ThinkingMethods
    /\ parts = <<>>
    /\ StreamStart

\* messages_thinking = [dict(m) for m in messages], then the test's loop
RunTest ==
    /\ test_messages = <<>>
    /\ test_messages' = <<TestDirectiveStep(thinking_method, call_messages,
                                            enable_thinking)>>
    /\ UNCHANGED <<streamVars, requestVars, uiVars, capVars, titleVars, twinVars, sendVars, turnVars>>

NextTest ==
    \/ AttachImages
    \/ BuildRequest
    \/ RunTest

SpecTest == InitTest /\ [][NextTest]_vars

---------------------------------------------------------------------------
(* Sending: the Send/Stop button, the slot and the handle_send_message tasks *)

InitSend ==
    /\ NoChat
    /\ NoCalls
    /\ NoTitle
    /\ NoTwin
    /\ NoTest
    /\ NoTurns
    /\ NoSend

\* InputArea.on_send with text in the box while nothing is flagged: the signal
\* is emitted and asyncSlot creates a task for handle_send_message. Clicks are
\* handled between the steps of tasks and inside add_message, whose
\* scroll_to_bottom calls QApplication.processEvents()
ClickSend ==
    /\ ~(is_generating_title \/ is_generating)
    /\ \E t \in Tasks :
          /\ task[t] = "none"
          /\ \A u \in 1..(t - 1) : task[u] # "none"
          /\ task' = [task EXCEPT ![t] = "scheduled"]
    /\ click' = "sent"
    /\ UNCHANGED <<generating_response, generating_title, is_generating,
                   is_generating_title, taken, current_chat_id, store, displayed, saved_to>>
    /\ UNCHANGED <<streamVars, requestVars, uiVars, capVars, titleVars, twinVars, testVars, turnVars>>

\* InputArea.on_send while a response or a title is generated: it returns
ClickStop ==
    /\ is_generating_title \/ is_generating
    /\ click' = "ignored"
    /\ UNCHANGED <<generating_response, generating_title, is_generating,
                   is_generating_title, task, taken, current_chat_id, store,
                   displayed, saved_to>>
    /\ UNCHANGED <<streamVars, requestVars, uiVars, capVars, titleVars, twinVars, testVars, turnVars>>

\* load_chat without the check of is_any_generation_active
LoadChat_Unguarded(c) ==
    /\ ChatExists(store, c)
    /\ current_chat_id' = c
    /\ displayed' = DisplayOf(store, c)
    /\ UNCHANGED <<generating_response, generating_title, is_generating,
                   is_generating_title, task, taken, click, store, saved_to>>
    /\ UNCHANGED <<streamVars, requestVars, uiVars, capVars, titleVars, twinVars, testVars, turnVars>>

\* MainWindow.load_chat, the slot of the sidebar's chat_selected and the call
\* of apply_settings
LoadChat(c) ==
    /\ ChatExists(store, c)
    /\ IF is_any_generation_active
       THEN /\ click' = "load"
            /\ UNCHANGED <<current_chat_id, displayed>>
       ELSE /\ current_chat_id' = c
            /\ displayed' = DisplayOf(store, c)
            /\ UNCHANGED click
    /\ UNCHANGED <<generating_response, generating_title, is_generating,
                   is_generating_title, task, taken, store, saved_to>>
    /\ UNCHANGED <<streamVars, requestVars, uiVars, capVars, titleVars, twinVars, testVars, turnVars>>

\* MainWindow.create_new_chat, the slot of the sidebar's new_chat_requested
CreateNewChat ==
    /\ FreeIds(store) # {}
    /\ IF is_any_generation_active
       THEN /\ click' = "new"
            /\ UNCHANGED <<current_chat_id, store, displayed>>
       ELSE /\ store' = [store EXCEPT ![NextChatId(store)] = NewChat]
            /\ current_chat_id' = NextChatId(store)
            /\ displayed' = <<>>
            /\ UNCHANGED click
    /\ UNCHANGED <<generating_response, generating_title, is_generating,
                   is_generating_title, task, taken, saved_to>>
    /\ UNCHANGED <<streamVars, requestVars, uiVars, capVars, titleVars, twinVars, testVars, turnVars>>

\* MainWindow.handle_fork_chat, the slot of a message widget's fork button:
\* the new chat holds the messages up to the one clicked and is loaded
HandleForkChat(m) ==
    /\ m \in 1..Len(displayed)
    /\ FreeIds(store) # {}
    /\ IF is_any_generation_active
       THEN /\ click' = "fork"
            /\ UNCHANGED <<current_chat_id, store, displayed>>
       ELSE IF ChatExists(store, current_chat_id)
            THEN LET new_chat == NextChatId(store)
                     copied == IF m <= store[current_chat_id].messages
                               THEN m ELSE store[current_chat_id].messages
                 IN  /\ store' = [store EXCEPT ![new_chat] =
                                     [row |-> "live", messages |-> copied, titled |-> TRUE]]
                     /\ current_chat_id' = new_chat
                     /\ displayed' = DisplayOf(store', new_chat)
                     /\ UNCHANGED click
            ELSE UNCHANGED <<current_chat_id, store, displayed, click>>
    /\ UNCHANGED <<generating_response, generating_title, is_generating,
                   is_generating_title, task, taken, saved_to>>
    /\ UNCHANGED <<streamVars, requestVars, uiVars, capVars, titleVars, twinVars, testVars, turnVars>>

\* Sidebar.handle_delete confirmed, and its signal's slot handle_chat_deleted
DeleteChat(c) ==
    /\ ChatExists(store, c)
    /\ store' = [store EXCEPT ![c] = DeletedChat]
    /\ IF current_chat_id = c
       THEN /\ displayed' = <<>>
            /\ current_chat_id' = NoChatId
       ELSE UNCHANGED <<current_chat_id, displayed>>
    /\ UNCHANGED <<generating_response, generating_title, is_generating,
                   is_generating_title, task, taken, click, saved_to>>
    /\ UNCHANGED <<streamVars, requestVars, uiVars, capVars, titleVars, twinVars, testVars, turnVars>>

\* the task's first step, up to the display of the user message: it returns
\* if a title is generated; else it makes a chat if none is selected (which
\* create_new_chat refuses while a response is generated), saves the user
\* message and shows it and the placeholder of the answer
TaskStart(t) ==
    /\ task[t] = "scheduled"
    /\ ~MidHandler
    /\ IF generating_title
       THEN /\ task' = [task EXCEPT ![t] = "refused"]
            /\ UNCHANGED <<current_chat_id, store, displayed, click, saved_to>>
       ELSE LET creates == current_chat_id = NoChatId /\ ~is_any_generation_active
                chat_id == IF creates THEN NextChatId(store) ELSE current_chat_id
                created == IF creates THEN [store EXCEPT ![chat_id] = NewChat] ELSE store
            IN  /\ creates => FreeIds(store) # {}
                /\ task' = [task EXCEPT ![t] = "shown"]
                /\ current_chat_id' = chat_id
                /\ store' = AddMessage(created, chat_id)
                /\ displayed' = (IF creates THEN <<>> ELSE displayed) \o <<chat_id, chat_id>>
                /\ click' = IF current_chat_id = NoChatId /\ ~creates THEN "new" ELSE click
                /\ saved_to' = [saved_to EXCEPT ![t].user = <<chat_id>>]
    /\ UNCHANGED <<generating_response, generating_title, is_generating,
                   is_generating_title, taken>>
    /\ UNCHANGED <<streamVars, requestVars, uiVars, capVars, titleVars, twinVars, testVars, turnVars>>

\* the same step goes on: the flags are set and the stream is opened
TaskBegin(t) ==
    /\ task[t] = "shown"
    /\ generating_response' = TRUE
    /\ is_generating' = TRUE
    /\ stop_requested' = FALSE
    /\ task' = [task EXCEPT ![t] = "streaming"]
    /\ UNCHANGED <<generating_title, is_generating_title, taken, click,
                   current_chat_id, store, displayed, saved_to>>
    /\ UNCHANGED <<ui_pc, full_response, full_thinking, shown, consumed, handled, saved>>
    /\ UNCHANGED <<streamVars, requestVars, capVars, titleVars, twinVars, testVars, turnVars>>

\* the code after the loop without the finally block: generating_response
\* and the input area stay in the generating state
AfterStream_NoFinally(t, long) ==
    LET saved_store == AddMessage(store, current_chat_id)
        first_exchange == /\ ChatExists(saved_store, current_chat_id)
                          /\ ~saved_store[current_chat_id].titled
                          /\ saved_store[current_chat_id].messages <= 2
    IN  /\ saved_to' = [saved_to EXCEPT ![t].reply = <<current_chat_id>>]
        /\ IF first_exchange /\ long
           THEN /\ generating_title' = TRUE
                /\ is_generating_title' = TRUE
                /\ task' = [task EXCEPT ![t] = "titling"]
                /\ store' = saved_store
           ELSE /\ task' = [task EXCEPT ![t] = "done"]
                /\ store' = IF first_exchange
                            THEN UpdateChatTitle(saved_store, current_chat_id)
                            ELSE saved_store
                /\ UNCHANGED <<generating_title, is_generating_title>>
        /\ UNCHANGED <<generating_response, is_generating, taken, click,
                       current_chat_id, displayed>>
        /\ UNCHANGED <<streamVars, requestVars, uiVars, capVars, titleVars, twinVars, testVars, turnVars>>

\* after the loop: the flags are reset, the assistant message is saved to the
\* current chat, and a first exchange of a chat still called "New Chat" gets
\* a title: generated if the answer is longer than 10 characters, else cut
\* from the user message
AfterStream(t, long) ==
    LET saved_store == AddMessage(store, current_chat_id)
        first_exchange == /\ ChatExists(saved_store, current_chat_id)
                          /\ ~saved_store[current_chat_id].titled
                          /\ saved_store[current_chat_id].messages <= 2
    IN  /\ generating_response' = FALSE
        /\ is_generating' = FALSE
        /\ saved_to' = [saved_to EXCEPT ![t].reply = <<current_chat_id>>]
        /\ IF first_exchange /\ long
           THEN /\ generating_title' = TRUE
                /\ is_generating_title' = TRUE
                /\ task' = [task EXCEPT ![t] = "titling"]
                /\ store' = saved_store
           ELSE /\ task' = [task EXCEPT ![t] = "done"]
                /\ store' = IF first_exchange
                            THEN UpdateChatTitle(saved_store, current_chat_id)
                            ELSE saved_store
                /\ UNCHANGED <<generating_title, is_generating_title>>
        /\ UNCHANGED <<taken, click, current_chat_id, displayed>>
        /\ UNCHANGED <<streamVars, requestVars, uiVars, capVars, titleVars, twinVars, testVars, turnVars>>

\* the loop is handed a dict: it breaks if stop_requested is set, else it
\* appends the dict's text and waits for the next one
TaskChunk(t) ==
    /\ task[t] = "streaming"
    /\ ~MidHandler
    /\ taken[t] < MaxParts
    /\ IF stop_requested
       THEN \E long \in {taken[t] > 0, FALSE} : AfterStream(t, long)
       ELSE /\ taken' = [taken EXCEPT ![t] = @ + 1]
            /\ UNCHANGED <<generating_response, generating_title, is_generating,
                           is_generating_title, task, click, current_chat_id, store,
                           displayed, saved_to>>
            /\ UNCHANGED <<streamVars, requestVars, uiVars, capVars, titleVars, twinVars, testVars, turnVars>>

\* the stream ends
TaskFinish(t) ==
    /\ task[t] = "streaming"
    /\ ~MidHandler
    /\ \E long \in {taken[t] > 0, FALSE} : AfterStream(t, long)

\* the stream raises: with nothing received the answer is the error text
TaskRaise(t) ==
    /\ task[t] = "streaming"
    /\ ~MidHandler
    /\ \E long \in {TRUE, taken[t] = 0} : AfterStream(t, long)

\* the title stream ends or fails: the title or its fallback is saved to the
\* current chat and the flags are reset
TaskTitleDone(t) ==
    /\ task[t] = "titling"
    /\ ~MidHandler
    /\ generating_title' = FALSE
    /\ is_generating_title' = FALSE
    /\ store' = UpdateChatTitle(store, current_chat_id)
    /\ task' = [task EXCEPT ![t] = "done"]
    /\ UNCHANGED <<generating_response, is_generating, taken, click,
                   current_chat_id, displayed, saved_to>>
    /\ UNCHANGED <<streamVars, requestVars, uiVars, capVars, titleVars, twinVars, testVars, turnVars>>

NextSend ==
    \/ ClickSend
    \/ ClickStop
    \/ \E t \in Tasks : TaskStart(t)
    \/ \E t \in Tasks : TaskBegin(t)
    \/ \E t \in Tasks : TaskChunk(t)
    \/ \E t \in Tasks : TaskFinish(t)
    \/ \E t \in Tasks : TaskRaise(t)
    \/ \E t \in Tasks : TaskTitleDone(t)

SpecSend == InitSend /\ [][NextSend]_vars

\* the event loop runs every task that can take a step, and the backend's
\* streams come to an end
TaskStep(t) ==
    TaskStart(t) \/ TaskBegin(t) \/ TaskChunk(t) \/ TaskFinish(t) \/ TaskRaise(t) \/ TaskTitleDone(t)

StreamsTerminate == \A t \in Tasks : WF_vars(TaskStep(t))

SpecSendFair == SpecSend /\ StreamsTerminate

---------------------------------------------------------------------------
(* One message sent while the user works with the chats of the sidebar *)

\* the message widgets whose fork button can be clicked
ForkPoints == 1..(2 * MaxSends)

\* the one message of the session is sent
ClickSendOnce ==
    /\ \A t \in Tasks : task[t] = "none"
    /\ ClickSend

NextChats ==
    \/ ClickSendOnce
    \/ ClickStop
    \/ \E c \in ChatIds : LoadChat(c)
    \/ CreateNewChat
    \/ \E m \in ForkPoints : HandleForkChat(m)
    \/ \E c \in ChatIds : DeleteChat(c)
    \/ \E t \in Tasks : TaskStart(t)
    \/ \E t \in Tasks : TaskBegin(t)
    \/ \E t \in Tasks : TaskChunk(t)
    \/ \E t \in Tasks : TaskFinish(t)
    \/ \E t \in Tasks : TaskRaise(t)
    \/ \E t \in Tasks : TaskTitleDone(t)

SpecChats == InitSend /\ [][NextChats]_vars

---------------------------------------------------------------------------
(* The turns of one chat: each turn's request is built from the stored chat *)

\* a new chat; no chat_stream call is running
InitTurns ==
    /\ NoWindow
    /\ NoCalls
    /\ NoTitle
    /\ NoTwin
    /\ NoTest
    /\ NoSend
    /\ NoTurns
    /\ messages = <<>>
    /\ call_messages = <<>>
    /\ enable_thinking = FALSE
    /\ images = NoImages
    /\ chat_kwargs = <<>>
    /\ thinking_method \in ThinkingMethods
    /\ parts = <<>>
    /\ received = 0
    /\ buffered_content = <<>>
    /\ in_thinking_section = FALSE
    /\ think_buffer = <<>>
    /\ pending = <<>>
    /\ yielded = <<>>
    /\ failed = FALSE
    /\ propagated = FALSE
    /\ pc = "done"

\* the user message is saved, the payload is built from the stored messages
\* and chat_stream is called with the state of the thinking toggle
TurnSend ==
    /\ pc = "done"
    /\ turns < MaxTurns
    /\ \E content \in TurnTexts, enable \in BOOLEAN :
          /\ history' = Append(history, StoredMessage("user", content))
          /\ messages' = MessagesPayload(history')
          /\ call_messages' = messages'
          /\ enable_thinking' = enable
    /\ images' = NoImages
    /\ chat_kwargs' = <<>>
    /\ turns' = turns + 1
    /\ pc' = "call"
    /\ UNCHANGED <<thinking_method, parts, received, buffered_content,
                   in_thinking_section, think_buffer, pending, yielded,
                   failed, propagated>>
    /\ UNCHANGED <<uiVars, capVars, titleVars, twinVars, testVars, sendVars>>

\* the stream has run with the request built: the reply is saved
TurnSave ==
    /\ pc = "start"
    /\ turns > 0
    /\ \E full_reply \in TurnReplies :
          history' = Append(history, StoredMessage("assistant", full_reply))
    /\ pc' = "done"
    /\ UNCHANGED turns
    /\ UNCHANGED <<thinking_method, parts, received, buffered_content,
                   in_thinking_section, think_buffer, pending, yielded,
                   failed, propagated>>
    /\ UNCHANGED <<requestVars, uiVars, capVars, titleVars, twinVars, testVars, sendVars>>

NextTurns ==
    \/ TurnSend
    \/ AttachImages
    \/ BuildRequest
    \/ TurnSave

SpecTurns == InitTurns /\ [][NextTurns]_vars

---------------------------------------------------------------------------
(* What the claims about capabilities speak of, read off the inputs *)

\* the lowercased model name contains one of the words
NameHas(words) == \E w \in words : Contains(Lower(model_name), w)

\* the show response has a capabilities list with a tag containing one of the words
TagHas(words) ==
    /\ details.has_capabilities
    /\ details.capabilities_is_list
    /\ \E i \in 1..Len(details.capabilities) :
          \E w \in words : Contains(Lower(details.capabilities[i]), w)

\* the show response has a metadata key containing the word
InfoHas(word) ==
    \E i \in 1..Len(details.modelinfo) : Contains(Lower(details.modelinfo[i]), word)

CapabilityRecords ==
    [thinking : BOOLEAN, vision : BOOLEAN,
     thinking_method : {"None", "parameter", "directive"}]

(* C13: capability resolution is idempotent.  A caller whose call has      *)
(* returned issues no backend request on any further call, which returns   *)
(* at once; and as long as no other call has written the cache since, the  *)
(* further call returns the result the caller already holds.  This covers  *)
(* a first call whose request failed and cached the fallback.              *)
C13_Step ==
    \A c \in Callers :
        cpc[c] = "returned" =>
            /\ requests'[c] = requests[c]
            /\ cpc'[c] = "returned"
            /\ (undisturbed[c] => result'[c] = result[c])

C13_Idempotent == [][C13_Step]_vars

\* a second call answered from the cache after the only request failed, for
\* a model whose fallback differs from what the backend would have answered
C13_Witness ==
    \E c \in Callers :
        /\ last[c] = "hit"
        /\ requests[c] = 1
        /\ \A d \in Callers \ {c} : requests[d] = 0
        /\ undisturbed[c]
        /\ result[c] # FromDetails(model_name, details)
        /\ capabilities_cache[model_name] = <<result[c]>>

(* C14: two calls for the same model that both miss the cache return equal *)
(* results, whatever the outcome of each call's request, and the cache     *)
(* entry after both have returned is that result.                          *)
C14_Converge ==
    \A c, d \in Callers :
        (/\ c # d
         /\ requests[c] = 1 /\ requests[d] = 1
         /\ last[c] \in {"answered", "failed"} /\ last[d] \in {"answered", "failed"}
         /\ cpc[c] = "returned" /\ cpc[d] = "returned")
        => /\ result[c] = result[d]
           /\ capabilities_cache[model_name] = <<result[c]>>

(* C15: a capability entry is immutable once written: no step changes or  *)
(* removes an entry that is in the cache.                                  *)
C15_Step ==
    \A n \in ModelNames :
        capabilities_cache[n] # <<>> => capabilities_cache'[n] = capabilities_cache[n]

C15_Immutable == [][C15_Step]_vars

(* C16: get_model_capabilities never raises.  When the backend request     *)
(* fails the call returns, what it returns is a complete record (two       *)
(* booleans and a mechanism), and that record is the cache entry when the  *)
(* call returns.                                                           *)
C16_Step ==
    \A c \in Callers :
        (cpc[c] = "awaiting" /\ last'[c] = "failed") =>
            /\ cpc'[c] = "returned"
            /\ result'[c] \in CapabilityRecords
            /\ capabilities_cache'[model_name] = <<result'[c]>>

C16_NeverRaises ==
    /\ [](\A c \in Callers : cpc[c] # "raised")
    /\ [][C16_Step]_vars

\* a failed request, answered from the keywords of the name
C16_Witness ==
    \E c \in Callers :
        /\ last[c] = "failed"
        /\ cpc[c] = "returned"
        /\ NameHas(THINKING_MODEL_KEYWORDS)
        /\ result[c].thinking
        /\ capabilities_cache[model_name] = <<result[c]>>

(* C17: the structured signal is preferred.  When the description request  *)
(* succeeds and a capability tag contains "reasoning" or "think" in any    *)
(* case, thinking is true and the mechanism is the parameter, also for a   *)
(* name that matches a thinking keyword; a tag or a metadata key           *)
(* containing "vision" makes vision true.                                  *)
C17_StructuredFirst ==
    \A c \in Callers :
        last[c] = "answered" =>
            /\ TagHas({Reasoning, Think}) =>
                   result[c].thinking /\ result[c].thinking_method = "parameter"
            /\ (TagHas({Vision}) \/ InfoHas(Vision)) => result[c].vision

\* a thinking tag on a model whose name matches a keyword, vision from metadata only
C17_Witness ==
    \E c \in Callers :
        /\ last[c] = "answered"
        /\ TagHas({Reasoning, Think})
        /\ NameHas(THINKING_MODEL_KEYWORDS)
        /\ ~TagHas({Vision})
        /\ InfoHas(Vision)
        /\ result[c] = [thinking |-> TRUE, vision |-> TRUE, thinking_method |-> "parameter"]

(* C18: when the description request succeeds without a reasoning tag, a   *)
(* lowercased name containing a thinking keyword gives thinking true with  *)
(* the directive mechanism, and a name without one gives thinking false    *)
(* with no mechanism.                                                      *)
C18_KeywordAfterTags ==
    \A c \in Callers :
        (last[c] = "answered" /\ ~TagHas({Reasoning, Think})) =>
            IF NameHas(THINKING_MODEL_KEYWORDS)
            THEN result[c].thinking /\ result[c].thinking_method = "directive"
            ELSE ~result[c].thinking /\ result[c].thinking_method = "None"

\* a name that matches a keyword only after lowercasing, and no reasoning tag
C18_Witness ==
    \E c \in Callers :
        /\ last[c] = "answered"
        /\ ~TagHas({Reasoning, Think})
        /\ details.has_capabilities /\ details.capabilities_is_list
        /\ NameHas(THINKING_MODEL_KEYWORDS)
        /\ model_name # Lower(model_name)
        /\ result[c].thinking_method = "directive"

(* C19: when the description request fails, thinking is decided by the     *)
(* thinking keywords alone and vision by the vision keywords alone, both   *)
(* on the lowercased name, and the mechanism is the directive exactly when *)
(* a thinking keyword matched, never the parameter.                        *)
C19_FallbackByKeyword ==
    \A c \in Callers :
        (last[c] = "failed" /\ cpc[c] = "returned") =>
            /\ result[c].thinking = NameHas(THINKING_MODEL_KEYWORDS)
            /\ result[c].vision = NameHas(VISION_MODEL_KEYWORDS)
            /\ result[c].thinking_method = "directive" <=> NameHas(THINKING_MODEL_KEYWORDS)
            /\ result[c].thinking_method # "parameter"

\* a failed request for a vision model without thinking keyword, whose show
\* response would have carried a thinking tag
C19_Witness ==
    \E c \in Callers :
        /\ last[c] = "failed"
        /\ cpc[c] = "returned"
        /\ NameHas(VISION_MODEL_KEYWORDS)
        /\ ~NameHas(THINKING_MODEL_KEYWORDS)
        /\ TagHas({Reasoning, Think})
        /\ result[c] = [thinking |-> FALSE, vision |-> TRUE, thinking_method |-> "None"]

---------------------------------------------------------------------------
(* C20: directive injection.  For a directive model the history handed to  *)
(* the backend has, for every user message of the call, the text "/think"  *)
(* and a newline (thinking enabled) or "/no_think" and a newline (thinking *)
(* disabled) followed by the text the message had when chat_stream was     *)
(* called; every message of another role is handed over as it was.         *)
ThinkLine == <<"/", "t", "h", "i", "n", "k", "\n">>

NoThinkLine == <<"/", "n", "o", "_", "t", "h", "i", "n", "k", "\n">>

---------------------------------------------------------------------------
(* C21: the caller's history is read-only to chat_stream.  When the call   *)
(* has returned, the caller's list holds the same messages, with the same  *)
(* text and the same image references, as when the call was made.          *)
C21_HistoryUntouched == pc = "done" => messages = call_messages

(* C22: the request carries the think toggle exactly when the mechanism is *)
(* the parameter, and then with the value of enable_thinking; the          *)
(* directive is written in front of the user messages exactly when the     *)
(* mechanism is the directive; for a model without thinking support the    *)
(* request has no think toggle and every message text is sent as it was.   *)
DirectiveLine == IF enable_thinking THEN ThinkLine ELSE NoThinkLine

C22_ToggleOrDirective ==
    chat_kwargs # <<>> =>
        LET request == chat_kwargs[1]
        IN  /\ request.think # <<>> <=> thinking_method = "parameter"
            /\ thinking_method = "parameter" => request.think = <<enable_thinking>>
            /\ Len(request.messages) = Len(call_messages)
            /\ \A i \in 1..Len(call_messages) :
                  request.messages[i].content =
                      IF thinking_method = "directive" /\ call_messages[i].role = "user"
                      THEN DirectiveLine \o call_messages[i].content
                      ELSE call_messages[i].content

\* a parameter model asked not to think: the toggle is there and false, the
\* question is sent as typed
C22_Witness ==
    /\ chat_kwargs # <<>>
    /\ thinking_method = "parameter"
    /\ ~enable_thinking
    /\ chat_kwargs[1].think = <<FALSE>>
    /\ Len(call_messages) = 4
    /\ chat_kwargs[1].messages[2].content = Hi

(* C23: images go to the newest turn only.  When chat_stream is called     *)
(* with images, the last user message of the history carries them, every   *)
(* other message has the image references it had, and a history without a  *)
(* user message is left as it was.                                         *)
ImagesGiven ==
    \/ images.kind = "str" /\ images.path # ""
    \/ images.kind = "list" /\ images.paths # <<>>

ImageList == IF images.kind = "str" THEN <<images.path>> ELSE images.paths

NewestTurn(i) ==
    /\ call_messages[i].role = "user"
    /\ \A j \in (i + 1)..Len(call_messages) : call_messages[j].role # "user"

---------------------------------------------------------------------------
(* C24: title truncation.  On the success path a cleaned title of more     *)
(* than 50 characters is returned as its first 47 characters and "...",    *)
(* 50 characters in all; a title of at most 50 characters is returned as   *)
(* it is; nothing longer than 50 characters is returned.                   *)
Generated == CleanTitle(Accumulate(title_parts))

C24_TitleTruncated ==
    (title_pc \in {"returned", "saved"} /\ ~title_failed) =>
        /\ \A i \in 1..Len(title_yield) : Len(title_yield[i]) <= 50
        /\ Len(Generated) > 50 =>
              /\ title_yield = <<SubSeq(Generated, 1, 47) \o <<".", ".", ".">>>>
              /\ Len(title_yield[1]) = 50
        /\ (Generated # <<>> /\ Len(Generated) <= 50) => title_yield = <<Generated>>

\* a title of 60 characters came back as 47 characters and three dots
C24_Witness ==
    /\ title_pc = "returned"
    /\ ~title_failed
    /\ Len(Generated) = 60
    /\ Len(title_yield[1]) = 50
    /\ SubSeq(title_yield[1], 47, 50) = <<"y", ".", ".", ".">>

(* C25: title fallback.  When the title request fails the generator        *)
(* returns the fallback title, and when the request fails or the generated *)
(* title is empty the title the window saves is the fallback title: the    *)
(* first 30 characters of the user text and "..." for a longer user text,  *)
(* the whole user text otherwise.                                          *)
ExpectedFallback ==
    IF Len(user_message) > 30
    THEN SubSeq(user_message, 1, 30) \o <<".", ".", ".">>
    ELSE user_message

C25_TitleFallback ==
    /\ (title_failed /\ title_pc \in {"returned", "saved"}) =>
           title_yield = <<ExpectedFallback>>
    /\ (title_pc = "saved" /\ (title_failed \/ Generated = <<>>)) =>
           chat_title = <<ExpectedFallback>>

\* a failed request for a user text of 31 characters
C25_Witness ==
    /\ title_pc = "saved"
    /\ title_failed
    /\ Len(user_message) = 31
    /\ Len(chat_title[1]) = 33

(* C26: title generation runs with reasoning off.  The prompt sent for a   *)
(* directive model begins with "/no_think" and a newline, the request for  *)
(* a parameter model carries think = false, the request for a model        *)
(* without thinking support carries neither; no request carries think =    *)
(* true or begins with "/think".                                           *)
C26_TitleWithoutThinking ==
    title_request # <<>> =>
        LET request == title_request[1]
            sent == request.messages[1].content
            prompt == TitlePrompt(user_message, assistant_message)
        IN  /\ Len(request.messages) = 1
            /\ request.think # <<TRUE>>
            /\ ~StartsWith(sent, ThinkLine)
            /\ title_caps.thinking_method = "directive" =>
                   sent = NoThinkLine \o prompt /\ request.think = <<>>
            /\ title_caps.thinking_method = "parameter" =>
                   sent = prompt /\ request.think = <<FALSE>>
            /\ title_caps.thinking_method = "None" =>
                   sent = prompt /\ request.think = <<>>

\* the request for a directive model
C26_Witness ==
    /\ title_request # <<>>
    /\ title_caps.thinking_method = "directive"
    /\ StartsWith(title_request[1].messages[1].content, NoThinkLine)

---------------------------------------------------------------------------
(* C27: parser state is per stream.  Whatever the order in which the       *)
(* chunks of two running calls arrive, the mode, the buffer and the dicts  *)
(* yielded by each call are those the call produces when it runs alone on  *)
(* the chunks it has taken.                                                *)
RECURSIVE Alone(_, _, _)
Alone(method, stream, n) ==
    IF n = 0 THEN [out |-> <<>>, buf |-> <<>>, inside |-> FALSE, think |-> <<>>]
    ELSE LET p == Alone(method, stream, n - 1)
             r == LoopBody(method, p.buf, p.inside, p.think, stream[n])
         IN  [out |-> p.out \o r.out, buf |-> r.buf, inside |-> r.inside,
              think |-> r.think]

C27_ParserStatePerStream ==
    \A s \in StreamIds :
        LET a == Alone(twin[s].method, twin[s].parts, twin[s].received)
        IN  /\ twin[s].pc = "streaming" =>
                  /\ twin[s].out = a.out
                  /\ twin_locals[s] = [buf |-> a.buf, inside |-> a.inside,
                                       think |-> a.think]
            /\ twin[s].pc = "done" =>
                  twin[s].out = a.out \o EndOfStreamFlush(a.buf)

\* both calls in mid-stream, one inside a thinking section and the other not
C27_Witness ==
    /\ \A s \in StreamIds :
          /\ twin[s].pc = "streaming"
          /\ twin[s].method = "directive"
          /\ twin[s].received >= 1
          /\ twin[s].received < Len(twin[s].parts)
    /\ twin_locals[1].inside
    /\ ~twin_locals[2].inside

---------------------------------------------------------------------------
(* C29: the directive logic of test_directives_actual.py gives the same    *)
(* message list as the directive step of chat_stream, for every history,   *)
(* both values of enable_thinking and every thinking method.               *)
C29_TestSameAsChatStream ==
    (chat_kwargs # <<>> /\ test_messages # <<>>) =>
        /\ Len(test_messages[1]) = Len(chat_kwargs[1].messages)
        /\ \A i \in 1..Len(test_messages[1]) :
              /\ test_messages[1][i].role = chat_kwargs[1].messages[i].role
              /\ test_messages[1][i].content = chat_kwargs[1].messages[i].content

---------------------------------------------------------------------------
(* C28: while a response is generated, a click on the Send/Stop button     *)
(* makes MainWindow.stop_requested true (so that the streaming loop ends   *)
(* at the next chunk).                                                     *)
C28_StopClickStops ==
    [][(generating_response /\ is_generating /\ click' = "ignored" /\ click # "ignored")
          => stop_requested']_vars

---------------------------------------------------------------------------
(* C30: at most one response stream is in progress at any time: no second  *)
(* handle_send_message saves a user message and opens a stream while an    *)
(* earlier one has not finished.                                           *)
C30_OneStreamAtATime ==
    \A t, u \in Tasks :
        (t # u /\ task[t] \in {"shown", "streaming", "titling"}) =>
            task[u] \notin {"shown", "streaming"}

---------------------------------------------------------------------------
(* C36: buffered_content is empty after each received chunk has been       *)
(* processed, in both modes and on every branch; hence the flush after the *)
(* chunk loop never emits a delta.                                         *)
C36_BufferEmptyAfterChunk ==
    /\ buffered_content = <<>>
    /\ \A k \in 1..Len(pending) : pending[k].origin # "flush"
    /\ \A k \in 1..Len(yielded) : yielded[k].origin # "flush"

\* C36 witness: a directive stream that closed its thinking section with text
\* behind the tag, and one cut inside a tag, have run to their end
C36_Witness ==
    /\ pc = "done"
    /\ ~failed
    /\ thinking_method = "directive"
    /\ \/ parts = << Text(OpenTag), Text(<<"c">> \o CloseTag \o <<" ", "d">>) >>
       \/ parts = << Text(<<"<", "t", "h", "i">>), Text(<<"n", "k", ">", "x">>) >>

---------------------------------------------------------------------------
(* C35: every result returned by get_model_capabilities and every cache    *)
(* entry is consistent: the mechanism is None exactly when thinking is     *)
(* false, it is the parameter only when a tag of the backend's capability  *)
(* list reported reasoning, and it is the directive only when the model    *)
(* name matched a thinking keyword.                                        *)
ConsistentCapabilities(r) ==
    /\ r.thinking_method = "None" <=> ~r.thinking
    /\ r.thinking_method = "parameter" => TagHas({Reasoning, Think})
    /\ r.thinking_method = "directive" => NameHas(THINKING_MODEL_KEYWORDS)

C35_ConsistentCapabilities ==
    /\ \A c \in Callers : cpc[c] = "returned" => ConsistentCapabilities(result[c])
    /\ \A n \in DOMAIN capabilities_cache :
          \A i \in 1..Len(capabilities_cache[n]) :
              n = model_name /\ ConsistentCapabilities(capabilities_cache[n][i])

\* C35 witness: two calls have returned, one with the parameter mechanism from
\* the tags and one with the directive mechanism from the name after its
\* request failed, and the cache holds one of the two
C35_Witness ==
    \E c, d \in Callers :
        /\ cpc[c] = "returned" /\ cpc[d] = "returned"
        /\ result[c].thinking_method = "parameter"
        /\ result[d].thinking_method = "directive"
        /\ capabilities_cache[model_name] # <<>>

---------------------------------------------------------------------------
(* C34: directives do not accumulate across turns.  With a directive model *)
(* every user message of every request is the stored text behind exactly   *)
(* one directive line, that of the turn's thinking toggle; the other       *)
(* messages are the stored texts; and no stored text is ever altered.      *)
StoredTextsKept ==
    /\ Len(history') >= Len(history)
    /\ \A i \in 1..Len(history) : history'[i] = history[i]

RequestOfTurn ==
    (chat_kwargs # <<>> /\ thinking_method = "directive") =>
        LET sent == chat_kwargs[1].messages
            n == Len(sent)
        IN  /\ n <= Len(history)
            /\ \A i \in 1..n :
                  /\ sent[i].role = history[i].role
                  /\ sent[i].content =
                        IF history[i].role = "user"
                        THEN DirectiveLine \o history[i].content
                        ELSE history[i].content
                  /\ history[i].content \in TurnTexts \cup TurnReplies

---------------------------------------------------------------------------
(* C31: while generating_response or generating_title is true, a call of  *)
(* create_new_chat, load_chat or handle_fork_chat leaves current_chat_id,  *)
(* the displayed messages and the chat store unchanged.                    *)
ChatSlotCalled ==
    \/ CreateNewChat
    \/ \E c \in ChatIds : LoadChat(c)
    \/ \E m \in ForkPoints : HandleForkChat(m)

C31_NoEffectWhileGenerating ==
    [][(is_any_generation_active /\ ChatSlotCalled)
          => UNCHANGED <<current_chat_id, displayed, store>>]_vars

\* C31 witness: load_chat was called and refused while the title of the
\* chat of the message was generated, and the chat is still the current one
C31_Witness ==
    \E t \in Tasks :
        /\ task[t] = "titling"
        /\ generating_title
        /\ click = "load"
        /\ saved_to[t].user = <<current_chat_id>>
        /\ Len(displayed) = 2

---------------------------------------------------------------------------
(* C32: the generation flags are always released.  A run that has set      *)
(* generating_response leaves its streaming loop, whether the stream ends, *)
(* raises or is stopped, and does so with generating_response false; a run *)
(* that has set generating_title ends its title generation, and does so    *)
(* with generating_title false.                                            *)
FlagsReleasedOnExit ==
    \A t \in Tasks :
        /\ (task[t] = "streaming" /\ task'[t] # "streaming") => ~generating_response'
        /\ (task[t] = "titling" /\ task'[t] # "titling") => ~generating_title'

---------------------------------------------------------------------------
(* C33: the assistant reply of a turn is saved to the chat to which the    *)
(* turn's user message was saved, whatever UI events are handled during    *)
(* the generation, the deletion of a chat included.                        *)
C33_ReplySavedToSameChat ==
    \A t \in Tasks :
        saved_to[t].reply # <<>> => saved_to[t].reply = saved_to[t].user

====
